---- MODULE Spec2Model ----
(***************************************************************************)
(* Model of the ChemTutor front end streaming pipeline:                    *)
(*   - useStreamingVoice : the MP3 playback scheduler (queue, active clip, *)
(*     processing lock, 200 ms advance timers, stop/mute);                  *)
(*   - useSSEChat        : the SSE read loop, frame parser and dispatcher,  *)
(*     and the chat messages they update;                                   *)
(*   - AppShell/MainPane : the TTS mode, the speaker button, sending;       *)
(*   - useChatStream     : the plain text read loop and its payload scan.   *)
(* The specifications share the definitions below:                          *)
(*   Spec     the playback scheduler fed by the audio events of responses,  *)
(*   SpecLive the scheduler with no stop call, under fairness,              *)
(*   SpecSSE  one response read chunk by chunk (character level),           *)
(*   SpecChat several responses of one chat, frame by frame,                *)
(*   SpecUI   the application as the user drives it,                        *)
(*   SpecText one plain text response read chunk by chunk.                  *)
(***************************************************************************)
EXTENDS Integers, Sequences, FiniteSets, TLC

\* ------------------------------------------------------------------ bounds
MaxClips == 3        \* audio events delivered to playAudio
MaxResp  == 2        \* sendMessage calls (responses)

Clips == 1..MaxClips
Resps == 1..MaxResp
NoClip == 0          \* currentAudioRef.current === null

MaxFrames == 3       \* frames dispatched to the chat, over all responses

Null == "null"

MaxCalls == 2        \* speakText calls (chat-ui)
MaxJobs == 3         \* sentences enqueued for synthesis (chat-ui)
Calls == 1..MaxCalls
Jobs == 1..MaxJobs
MaxUtts == 3         \* texts passed to useBrowserTTS's speakText
Utts == 1..MaxUtts
MaxRecs == 3         \* handleVoiceInput calls that ask for the microphone
Recs == 1..MaxRecs
MaxRetries == 2      \* largest retries value a caller of request passes

VARIABLES
  \* ---- useStreamingVoice (one hook instance)
  audioQueue,      \* audioQueueRef.current: sequence of clips
  currentAudio,    \* currentAudioRef.current: a clip or NoClip
  isProcessing,    \* isProcessingRef.current
  isMuted,         \* isMuted state of the latest render
  isSpeaking,      \* isSpeaking state
  timers,          \* number of pending setTimeout(playNextInQueue, 200)
  \* ---- the Audio elements and object URLs the hook created
  phase,           \* per clip: none/skipped/queued/active/stopped/over/discarded
  promise,         \* per clip: the promise returned by audio.play(): none/pending/resolved/rejected
  errPending,      \* per clip: an 'error' event is queued because src was set to ''
  revoked,         \* per clip: number of URL.revokeObjectURL calls on its URL
  nextClip,        \* next clip identity (clips are numbered in playAudio order)
  startLog,        \* clips in the order audio.play() was called on them
  \* ---- the responses that feed the hook
  resp,            \* number of sendMessage calls so far
  respMuted,       \* per response: isMuted captured by its onAudioEvent closure
  clipResp,        \* per clip: the response whose audio event carried it
  \* ---- useSSEChat and the chat it updates (the selected chat)
  messages,        \* c.messages of the selected chat
  status,          \* per response: where its sendMessage call stands
  dispatched,      \* per response: the events handleSSEEvent was called with
  eventSourceRef,  \* eventSourceRef.current
  currentMessageIdRef, \* currentMessageIdRef.current (0 for null)
  \* ---- the byte stream of one response and the read loop's buffer
  frames,          \* the frames the server wrote, in order
  stream,          \* their serialisation, one symbol per element
  pos,             \* symbols handed to the read loop so far
  buffer,          \* the read loop's buffer
  \* ---- AppShell and MainPane
  ttsMode,         \* AppShell's ttsMode state: "openai" or "browser"
  respMode,        \* per response: the ttsMode its sendMessage call captured
  paneMuted,       \* isMuted of the useStreamingVoice instance of MainPane
  paneBrowserMuted,\* isMuted of the useBrowserTTS instance of MainPane
  browserSpoken,   \* the texts AppShell passed to browserTTSHook.speakText
  \* ---- useChatStream (chat-ui): the read loop over a plain text stream
  accumulated,     \* the characters of the response read so far
  lastProcessedLen,\* lastProcessedLenRef.current.get(chat) (0 when absent)
  seenToolMatches, \* seenToolMatchesRef.current.get(chat) (empty when absent)
  \* ---- useVoice (chat-ui): sentences of one assistant message
  msgText,         \* the final text of the message
  givenLen,        \* length of the prefix the latest speakText call was given
  lastSpokenIndex, \* lastSpokenIndexRef.current.get(messageId) (0 when absent)
  extracted,       \* the sentences speakText extracted so far, in order
  callText,        \* cleanText of the latest speakText call
  callStart,       \* prevIndex of the latest speakText call
  complete,        \* the response is complete and its text was passed whole
  \* ---- useVoice (chat-ui): the sentence TTS queue
  ttsQueue,        \* ttsQueueRef.current: the jobs waiting, in order
  isTtsBusy,       \* isTtsBusyRef.current
  callState,       \* per speakText call: where the call stands
  callLeft,        \* per speakText call: sentences it has not enqueued yet
  callJob,         \* per speakText call: the job its enqueueTts loop holds
  callFrom,        \* per speakText call: the sentences before its prevIndex
  callCount,       \* per speakText call: the sentences it extracted
  jobSentence,     \* per job: which sentence of the message its text is
  ttsCursor,       \* sentences before lastSpokenIndexRef.current.get(messageId)
  voiceMuted,      \* isMuted state of useVoice
  jobState,        \* per job: none/queued/synth/playing/ended/skipped
  jobCall,         \* per job: the speakText call that enqueued it
  nextJob,         \* next job identity (jobs are numbered in enqueue order)
  ttsStartLog,     \* jobs in the order audio.play() was called for them
  \* ---- useBrowserTTS (one hook instance) and window.speechSynthesis
  queueRef,        \* queueRef.current: the utterances waiting, in order
  isProcessingRef, \* isProcessingRef.current
  utteranceRef,    \* utteranceRef.current: an utterance or 0
  browserMuted,    \* isMuted state
  browserSpeaking, \* isSpeaking state
  browserTimers,   \* number of pending 100 ms timers
  uttState,        \* per utterance: none/queued/pending/speaking/cancelled/over
  cutBy,           \* per utterance: what cancelled it once it had started
  uttLog,          \* utterances in the order their start event fired
  nextUtt,         \* next utterance identity (numbered in speakText order)
  \* ---- useStreamingVoice: voice input
  isRecording,     \* isRecording state
  isProcessingSTT, \* isProcessingSTT state
  mediaRecorderRef, \* mediaRecorderRef.current: a recorder or 0
  recState,        \* per handleVoiceInput call: asking/denied, then its recorder
  recTimer,        \* per recorder: its 15 s timer is pending
  \* ---- ApiService.request (one call at a time)
  apiState,        \* idle/fetching/sleeping/returned/thrown
  attempt,         \* let attempt
  apiRetries,      \* const retries
  apiStream,       \* config.stream
  apiTimed,        \* timeoutMs is not 0
  fetches,         \* fetch calls made by the request
  outLog,          \* how each fetch of the request settled, in order
  apiResult        \* the response returned or the error thrown

voiceVars == <<audioQueue, currentAudio, isProcessing, isMuted, isSpeaking,
               timers, phase, promise, errPending, revoked, nextClip,
               startLog, resp, respMuted, clipResp>>

chatVars == <<messages, status, dispatched, eventSourceRef, currentMessageIdRef>>

sseVars == <<frames, stream, pos, buffer>>

uiVars == <<ttsMode, respMode, paneMuted, paneBrowserMuted, browserSpoken>>

streamVars == <<accumulated, lastProcessedLen, seenToolMatches>>

\* chat-ui useVoice: the text of the message being spoken, the prefixes that
\* speakText was given, and the per-message cursor
sentenceVars == <<msgText, givenLen, lastSpokenIndex, extracted, callText, callStart, complete>>

\* chat-ui useVoice: the sentence TTS queue and the speakText calls feeding it
ttsVars == <<ttsQueue, isTtsBusy, callState, callLeft, callJob, jobState, jobCall,
             nextJob, ttsStartLog, callFrom, callCount, jobSentence, ttsCursor,
             voiceMuted>>

\* useBrowserTTS and the speech synthesizer of the browser
browserVars == <<queueRef, isProcessingRef, utteranceRef, browserMuted, browserSpeaking,
                 browserTimers, uttState, cutBy, uttLog, nextUtt>>

\* useStreamingVoice's voice input
sttVars == <<isRecording, isProcessingSTT, mediaRecorderRef, recState, recTimer>>

\* ApiService.request
apiVars == <<apiState, attempt, apiRetries, apiStream, apiTimed, fetches, outLog, apiResult>>

ioVars == <<sttVars, apiVars>>

speechVars == <<sentenceVars, ttsVars, browserVars, ioVars>>

vars == <<voiceVars, chatVars, sseVars, uiVars, streamVars, speechVars>>

\* ------------------------------------------------------------ helpers
Created == {c \in Clips : phase[c] \in {"queued", "active", "stopped", "over", "discarded"}}
Active  == {c \in Clips : phase[c] = "active"}

IsPrefix(a, b) == Len(a) <= Len(b) /\ SubSeq(b, 1, Len(a)) = a

RECURSIVE SeqToSet(_)
SeqToSet(s) == IF s = <<>> THEN {} ELSE {Head(s)} \cup SeqToSet(Tail(s))

\* The part of the scheduler's state that playAudio and playNextInQueue
\* write, as one record (v), and the assignment of such a record.
VoiceRec ==
  [audioQueue |-> audioQueue, currentAudio |-> currentAudio,
   isProcessing |-> isProcessing, isSpeaking |-> isSpeaking,
   phase |-> phase, promise |-> promise, startLog |-> startLog,
   nextClip |-> nextClip, clipResp |-> clipResp]

SetVoice(v) ==
  /\ audioQueue' = v.audioQueue
  /\ currentAudio' = v.currentAudio
  /\ isProcessing' = v.isProcessing
  /\ isSpeaking' = v.isSpeaking
  /\ phase' = v.phase
  /\ promise' = v.promise
  /\ startLog' = v.startLog
  /\ nextClip' = v.nextClip
  /\ clipResp' = v.clipResp

\* ------------------------------------------------------- useStreamingVoice
\* (mutant) playNextInQueue taking the clip at the tail of the queue
playNextInQueue_lifo(v) ==
  IF Len(v.audioQueue) = 0
  THEN [v EXCEPT !.isSpeaking = FALSE, !.currentAudio = NoClip,
                 !.isProcessing = FALSE]
  ELSE LET c == v.audioQueue[Len(v.audioQueue)] IN
       [v EXCEPT !.audioQueue = SubSeq(@, 1, Len(@) - 1), !.currentAudio = c,
                 !.isSpeaking = TRUE,
                 !.phase = [@ EXCEPT ![c] = "active"],
                 !.promise = [@ EXCEPT ![c] = "pending"],
                 !.startLog = Append(@, c)]

\* playNextInQueue(): idle when the queue is empty, else shift the head,
\* make it the current clip and call play() on it.
playNextInQueue(v) ==
  IF Len(v.audioQueue) = 0
  THEN [v EXCEPT !.isSpeaking = FALSE, !.currentAudio = NoClip,
                 !.isProcessing = FALSE]
  ELSE LET c == Head(v.audioQueue) IN
       [v EXCEPT !.audioQueue = Tail(@), !.currentAudio = c,
                 !.isSpeaking = TRUE,
                 !.phase = [@ EXCEPT ![c] = "active"],
                 !.promise = [@ EXCEPT ![c] = "pending"],
                 !.startLog = Append(@, c)]

\* processAudioQueue(): takes the lock and plays the head, unless locked.
processAudioQueue(v) ==
  IF v.isProcessing
  THEN v
  ELSE playNextInQueue([v EXCEPT !.isProcessing = TRUE])

\* An audio event for which no clip is created: it only takes its number.
skipAudio(v, r) ==
  LET c == v.nextClip
  IN [v EXCEPT !.nextClip = @ + 1, !.clipResp = [@ EXCEPT ![c] = r],
               !.phase = [@ EXCEPT ![c] = "skipped"]]

\* playAudio(audioBase64) of the render that response r's onAudioEvent
\* closure holds (muted is the isMuted of that render).  Every audio event
\* takes the next clip number, whether a clip is created for it or not.
playAudio(v, r, muted, a) ==
  LET c == v.nextClip
  IN IF muted \/ a # "ok"
     THEN \* muted, no data, or atob throws inside the try block
          skipAudio(v, r)
     ELSE processAudioQueue(
            [v EXCEPT !.nextClip = @ + 1, !.clipResp = [@ EXCEPT ![c] = r],
                      !.audioQueue = Append(@, c),
                      !.phase = [@ EXCEPT ![c] = "queued"]])

\* (mutant) the handlers not arming the advance timer
ClipDone_noTimer(c) ==
  /\ revoked' = [revoked EXCEPT ![c] = @ + 1]
  /\ currentAudio' = NoClip
  /\ timers' = timers

\* Common body of audio.onended, audio.onerror and play().catch for clip c:
\* revoke the URL, forget the current clip, arm the 200 ms timer.
ClipDone(c) ==
  /\ revoked' = [revoked EXCEPT ![c] = @ + 1]
  /\ currentAudio' = NoClip
  /\ timers' = timers + 1

\* ------------------------------------------------------------ useSSEChat
\* An event as handleSSEEvent receives it: { type, ...data }.  A field the
\* data object does not have is "" (undefined); audio is the audio_base64
\* field: "" (absent or empty), "ok", or "bad" (not base64).
Event(t, content, audio, name, message) ==
  [type |-> t, content |-> content, audio |-> audio, name |-> name, message |-> message]

UserMsg == [role |-> "user", id |-> 0, text |-> <<>>, attachments |-> <<>>]
BotMsg(r) == [role |-> "assistant", id |-> r, text |-> <<>>, attachments |-> <<>>]

\* The setChats updater every handler uses: rewrite the LAST message of the
\* selected chat when it is an assistant message, else leave the chat alone.
UpdateLast(msgs, txt, att) ==
  IF Len(msgs) > 0 /\ msgs[Len(msgs)].role = "assistant"
  THEN [msgs EXCEPT ![Len(msgs)] =
          [@ EXCEPT !.text = @ \o txt, !.attachments = @ \o att]]
  ELSE msgs

\* `\n[Error: ${...}]` appended by the 'error' case and by the catch block
ErrorNote(m) == <<"[Error: " \o m \o "]">>

\* handleSSEEvent(event, ...) called by the read loop of response r, on the
\* pair st = [messages, voice]: the chat and the scheduler it leaves.
handleSSEEvent(ev, r, st) ==
  CASE ev.type = "text" ->
         [st EXCEPT !.messages =
            UpdateLast(@, IF ev.content = "" THEN <<>> ELSE <<ev.content>>, <<>>)]
    [] ev.type = "audio" ->
         [st EXCEPT !.voice =
            IF ev.audio # ""
            THEN playAudio(@, r, respMuted[r], ev.audio)
            ELSE skipAudio(@, r)]   \* onAudioEvent is not called
    [] ev.type = "molecule" ->
         [st EXCEPT !.messages = UpdateLast(@, <<>>, <<ev.name>>)]
    [] ev.type = "error" ->
         [st EXCEPT !.messages = UpdateLast(@, ErrorNote(ev.message), <<>>)]
    [] OTHER -> st   \* complete, done, unknown names

\* The catch block of sendMessage: annotate the last assistant message.
CatchError(msgs, err) == UpdateLast(msgs, ErrorNote(err), <<>>)

\* ------------------------------------------------ the SSE stream, parsed
\* The stream is a sequence of symbols: "n" is a newline, "E" the text
\* 'event:', "D" the text 'data:', and every other symbol an event name or a
\* data string.  A chunk boundary may fall between any two symbols.

\* JSON.parse(dataStr): the object a data string denotes, with the fields the
\* handlers read; ok is FALSE when JSON.parse throws, truthy is FALSE for a
\* JSON value such as 0 or null.
JSONParse(str) ==
  CASE str = "cA" -> [ok |-> TRUE, truthy |-> TRUE, val |-> Event("", "a", "", "", "")]
    [] str = "cB" -> [ok |-> TRUE, truthy |-> TRUE, val |-> Event("", "b", "", "", "")]
    [] str = "mW" -> [ok |-> TRUE, truthy |-> TRUE, val |-> Event("", "", "", "W", "")]
    [] str = "au" -> [ok |-> TRUE, truthy |-> TRUE, val |-> Event("", "", "ok", "", "")]
    [] str = "er" -> [ok |-> TRUE, truthy |-> TRUE, val |-> Event("", "", "", "", "M")]
    [] str = "ob" -> [ok |-> TRUE, truthy |-> TRUE, val |-> Event("", "", "", "", "")]
    [] str = "ty" -> [ok |-> TRUE, truthy |-> TRUE, val |-> Event("text", "a", "", "", "")]
    [] str = "0"  -> [ok |-> TRUE, truthy |-> FALSE, val |-> Event("", "", "", "", "")]
    [] OTHER      -> [ok |-> FALSE, truthy |-> FALSE, val |-> Event("", "", "", "", "")]

RECURSIVE Join(_)
Join(syms) == IF syms = <<>> THEN "" ELSE Head(syms) \o Join(Tail(syms))

\* s.split('\n\n'), cur being the piece under construction
RECURSIVE SplitBlocks(_, _)
SplitBlocks(s, cur) ==
  IF s = <<>> THEN <<cur>>
  ELSE IF Len(s) >= 2 /\ s[1] = "n" /\ s[2] = "n"
       THEN <<cur>> \o SplitBlocks(SubSeq(s, 3, Len(s)), <<>>)
       ELSE SplitBlocks(Tail(s), Append(cur, Head(s)))

\* s.split('\n')
RECURSIVE SplitLines(_, _)
SplitLines(s, cur) ==
  IF s = <<>> THEN <<cur>>
  ELSE IF s[1] = "n"
       THEN <<cur>> \o SplitLines(Tail(s), <<>>)
       ELSE SplitLines(Tail(s), Append(cur, Head(s)))

\* !eventBlock.trim(): nothing but whitespace
IsBlank(block) == \A i \in 1..Len(block) : block[i] = "n"

\* (mutant) the read loop forgetting the incomplete tail
KeepIncomplete_drop(events) == << >>

\* events.pop() || '': the incomplete tail that stays in the buffer
KeepIncomplete(events) == events[Len(events)]

\* The for-loop of parseSSEEvent over the lines: the last 'event:' line and
\* the last 'data:' line win; data that fails to parse becomes { raw }.
RECURSIVE ParseLines(_, _, _)
ParseLines(lines, eventType, data) ==
  IF lines = <<>> THEN [eventType |-> eventType, data |-> data]
  ELSE LET line == Head(lines) IN
       IF line # <<>> /\ line[1] = "E"
       THEN ParseLines(Tail(lines), Join(Tail(line)), data)
       ELSE IF line # <<>> /\ line[1] = "D"
       THEN LET j == JSONParse(Join(Tail(line))) IN
            ParseLines(Tail(lines), eventType,
                       IF j.ok THEN j
                       ELSE [ok |-> TRUE, truthy |-> TRUE, val |-> Event("", "", "", "", "")])
       ELSE ParseLines(Tail(lines), eventType, data)

\* parseSSEEvent(eventBlock): << { type: eventType, ...data } >>, or << >>
\* for null
parseSSEEvent(block) ==
  LET p == ParseLines(SplitLines(block, <<>>), "message",
                      [ok |-> TRUE, truthy |-> FALSE, val |-> Event("", "", "", "", "")])
  IN IF p.data.truthy
     THEN << [p.data.val EXCEPT !.type = IF @ # "" THEN @ ELSE p.eventType] >>
     ELSE << >>

\* The for-loop of the read loop over the complete blocks of one chunk:
\* skip blank blocks, parse, dispatch.  acc = [st, log].
RECURSIVE DispatchBlocks(_, _, _)
DispatchBlocks(blocks, r, acc) ==
  IF blocks = <<>> THEN acc
  ELSE LET b == Head(blocks)
           ev == parseSSEEvent(b)
       IN IF IsBlank(b) \/ ev = << >>
          THEN DispatchBlocks(Tail(blocks), r, acc)
          ELSE DispatchBlocks(Tail(blocks), r,
                 [st |-> handleSSEEvent(ev[1], r, acc.st),
                  log |-> Append(acc.log, ev[1])])

\* The frames a server can write (without the blank line that ends them)
FrameKinds ==
  { <<"E", "text", "n", "D", "cA">>,     \* text "a"
    <<"E", "text", "n", "D", "cB">>,     \* text "b"
    <<"E", "molecule", "n", "D", "mW">>,
    <<"E", "audio", "n", "D", "au">>,
    <<"E", "done", "n", "D", "ob">>,
    <<"E", "error", "n", "D", "er">>,
    <<"E", "ping", "n", "D", "cA">>,     \* unknown event name
    <<"E", "text", "n", "D", "{">>,      \* data is not JSON
    <<"E", "molecule", "n", "D", "{">>,  \* data is not JSON
    <<"E", "ping", "n", "D", "ty">>,     \* data carries its own "type"
    <<"D", "cA">>,                       \* no event line
    <<"E", "text">> }                    \* no data line

RECURSIVE Serialize(_)
Serialize(fs) ==
  IF fs = <<>> THEN <<>> ELSE Head(fs) \o <<"n", "n">> \o Serialize(Tail(fs))

\* ---------------------------------------------------------------- actions
\* audio.onended: the clip played to its end.  Playback had begun, so the
\* play() promise is resolved by now (its then-handler only logs).
AudioEnded(c) ==
  /\ phase[c] = "active"
  /\ phase' = [phase EXCEPT ![c] = "over"]
  /\ promise' = [promise EXCEPT ![c] = "resolved"]
  /\ ClipDone(c)
  /\ UNCHANGED <<audioQueue, isProcessing, isMuted, isSpeaking,
                 errPending, nextClip, startLog, resp, respMuted, clipResp>>
  /\ UNCHANGED <<chatVars, sseVars, uiVars, streamVars, speechVars>>

\* audio.onerror: a load or decode failure of an active clip, or the error
\* event the element fires after stopSpeaking set its src to ''.
AudioError(c) ==
  /\ \/ /\ phase[c] = "active"
        /\ phase' = [phase EXCEPT ![c] = "over"]
        /\ UNCHANGED errPending
     \/ /\ errPending[c]
        /\ errPending' = [errPending EXCEPT ![c] = FALSE]
        /\ UNCHANGED phase
  /\ ClipDone(c)
  /\ UNCHANGED <<audioQueue, isProcessing, isMuted, isSpeaking, promise,
                 nextClip, startLog, resp, respMuted, clipResp>>
  /\ UNCHANGED <<chatVars, sseVars, uiVars, streamVars, speechVars>>

\* audio.play().catch: the promise is rejected (playback not allowed, load
\* failure after the error event, or aborted by pause()).
PlayRejected(c) ==
  /\ promise[c] = "pending"
  /\ promise' = [promise EXCEPT ![c] = "rejected"]
  /\ phase' = [phase EXCEPT ![c] = IF @ = "active" THEN "over" ELSE @]
  /\ ClipDone(c)
  /\ UNCHANGED <<audioQueue, isProcessing, isMuted, isSpeaking, errPending,
                 nextClip, startLog, resp, respMuted, clipResp>>
  /\ UNCHANGED <<chatVars, sseVars, uiVars, streamVars, speechVars>>

\* A 200 ms timer fires: playNextInQueue().
TimerFires ==
  /\ timers > 0
  /\ timers' = timers - 1
  /\ SetVoice(playNextInQueue(VoiceRec))
  /\ UNCHANGED <<isMuted, errPending, revoked, resp, respMuted>>
  /\ UNCHANGED <<chatVars, sseVars, uiVars, streamVars, speechVars>>

\* The clips stopSpeaking revokes and drops: the whole queue.
StopDiscards(q) == SeqToSet(q)

\* (mutant) the unmute branch also releasing the processing lock
Unmute_unlock ==
  /\ isMuted' = FALSE
  /\ isProcessing' = FALSE
  /\ UNCHANGED <<audioQueue, currentAudio, isSpeaking,
                 timers, phase, promise, errPending, revoked, nextClip,
                 startLog, resp, respMuted, clipResp>>

\* The unmute branch of stopSpeaking: setIsMuted(false); return.
Unmute ==
  /\ isMuted' = FALSE
  /\ UNCHANGED <<audioQueue, currentAudio, isProcessing, isSpeaking,
                 timers, phase, promise, errPending, revoked, nextClip,
                 startLog, resp, respMuted, clipResp>>

\* stopSpeaking(): unmute when muted; otherwise pause the clip that
\* currentAudioRef names, revoke and drop the queue, release the lock, mute.
stopSpeaking ==
  IF isMuted
     THEN Unmute
     ELSE LET cur == currentAudio
              dropped == StopDiscards(audioQueue)
          IN
          /\ phase' = [c \in Clips |->
                         IF c = cur /\ phase[c] = "active" THEN "stopped"
                         ELSE IF c \in dropped THEN "discarded"
                         ELSE phase[c]]
          /\ errPending' = [c \in Clips |-> IF c = cur THEN TRUE ELSE errPending[c]]
          /\ revoked' = [c \in Clips |-> IF c \in dropped THEN revoked[c] + 1 ELSE revoked[c]]
          /\ currentAudio' = NoClip
          /\ audioQueue' = <<>>
          /\ isProcessing' = FALSE
          /\ isSpeaking' = FALSE
          /\ isMuted' = TRUE
          /\ UNCHANGED <<timers, promise, nextClip, startLog, resp, respMuted, clipResp>>

\* stopSpeaking() of the scheduler that receives the audio events
StopSpeaking ==
  /\ stopSpeaking
  /\ UNCHANGED <<chatVars, sseVars, uiVars, streamVars, speechVars>>

\* MainPane.handleSend before it calls onSendMessage: unmute the hook
\* instance of MainPane that belongs to the current TTS mode.
handleSend ==
  /\ paneMuted' = IF ttsMode = "openai" THEN FALSE ELSE paneMuted
  /\ paneBrowserMuted' = IF ttsMode = "browser" THEN FALSE ELSE paneBrowserMuted

\* AppShell's onTextEvent of a render whose ttsMode is mode, called by
\* handleSSEEvent for each text event with non-blank content among evs.
RECURSIVE onTextEvent(_, _, _)
onTextEvent(spoken, evs, mode) ==
  IF evs = <<>> THEN spoken
  ELSE onTextEvent(
         IF Head(evs).type = "text" /\ Head(evs).content # "" /\ mode = "browser"
         THEN Append(spoken, Head(evs).content) ELSE spoken,
         Tail(evs), mode)

\* sendMessage(text) up to its first await: append the user message and the
\* empty assistant message, close eventSourceRef.current if set, record the
\* assistant message id, start the fetch.  The onAudioEvent closure the call
\* holds is the one of the current render, hence the current isMuted.
SendMessage ==
  /\ resp < MaxResp
  /\ resp' = resp + 1
  /\ respMuted' = [respMuted EXCEPT ![resp + 1] = isMuted]
  /\ messages' = messages \o <<UserMsg, BotMsg(resp + 1)>>
  /\ status' = [r \in Resps |->
                  IF r = resp + 1 THEN "fetching"
                  ELSE IF eventSourceRef # Null /\ status[r] \in {"fetching", "reading"}
                       THEN "closed"
                       ELSE status[r]]
  /\ currentMessageIdRef' = resp + 1
  /\ UNCHANGED <<eventSourceRef, dispatched>>
  /\ handleSend
  /\ respMode' = [respMode EXCEPT ![resp + 1] = ttsMode]
  /\ UNCHANGED <<ttsMode, browserSpoken>>
  /\ UNCHANGED <<streamVars, speechVars>>
  /\ UNCHANGED <<audioQueue, currentAudio, isProcessing, isMuted, isSpeaking,
                 timers, phase, promise, errPending, revoked, nextClip,
                 startLog, clipResp>>
  /\ UNCHANGED sseVars

\* await fetch(...) resolves with response.ok: the read loop starts.
FetchResolves(r) ==
  /\ status[r] = "fetching"
  /\ status' = [status EXCEPT ![r] = "reading"]
  /\ UNCHANGED <<messages, dispatched, eventSourceRef, currentMessageIdRef>>
  /\ UNCHANGED <<voiceVars, sseVars, uiVars, streamVars, speechVars>>

\* fetch rejects, or the response is not ok: the catch block runs and
\* sendMessage returns.
FetchFails(r) ==
  /\ status[r] = "fetching"
  /\ status' = [status EXCEPT ![r] = "failed"]
  /\ messages' = CatchError(messages, "http")
  /\ UNCHANGED <<dispatched, eventSourceRef, currentMessageIdRef>>
  /\ UNCHANGED <<voiceVars, sseVars, uiVars, streamVars, speechVars>>

\* The events a frame other than an audio frame can parse to
EventInputs ==
  { Event("text", "a", "", "", ""), Event("text", "b", "", "", ""),
    Event("molecule", "", "", "W", ""), Event("done", "", "", "", ""),
    Event("complete", "", "", "", ""), Event("error", "", "", "", "M"),
    Event("ping", "", "", "", "") }

\* The audio events: audio_base64 is valid, empty, or not base64
AudioEvents ==
  { Event("audio", "", a, "", "") : a \in {"ok", "", "bad"} }

RECURSIVE SumLen(_, _)
SumLen(f, n) == IF n = 0 THEN 0 ELSE Len(f[n]) + SumLen(f, n - 1)

\* frames dispatched so far, over all responses
FramesDispatched == SumLen(dispatched, MaxResp)

\* The read loop of response r receives a chunk that completes one frame and
\* dispatches its event.
DeliverFrame(r, ev) ==
  /\ r \in 1..resp
  /\ status[r] = "reading"
  /\ ev.type = "audio" => nextClip <= MaxClips
  /\ dispatched' = [dispatched EXCEPT ![r] = Append(@, ev)]
  /\ LET st == handleSSEEvent(ev, r, [messages |-> messages, voice |-> VoiceRec])
     IN /\ messages' = st.messages
        /\ SetVoice(st.voice)
  /\ browserSpoken' = onTextEvent(browserSpoken, <<ev>>, respMode[r])
  /\ UNCHANGED <<status, eventSourceRef, currentMessageIdRef>>
  /\ UNCHANGED <<isMuted, timers, errPending, revoked, resp, respMuted>>
  /\ UNCHANGED <<ttsMode, respMode, paneMuted, paneBrowserMuted>>
  /\ UNCHANGED <<streamVars, speechVars>>
  /\ UNCHANGED sseVars

\* reader.read() reports done: the loop breaks and sendMessage returns.
ReadDone(r) ==
  /\ status[r] = "reading"
  /\ status' = [status EXCEPT ![r] = "closed"]
  /\ UNCHANGED <<messages, dispatched, eventSourceRef, currentMessageIdRef>>
  /\ UNCHANGED <<voiceVars, sseVars, uiVars, streamVars, speechVars>>

\* reader.read() rejects (transport lost): the catch block runs and
\* sendMessage returns.
ReadFails(r) ==
  /\ status[r] = "reading"
  /\ status' = [status EXCEPT ![r] = "failed"]
  /\ messages' = CatchError(messages, "read")
  /\ UNCHANGED <<dispatched, eventSourceRef, currentMessageIdRef>>
  /\ UNCHANGED <<voiceVars, sseVars, uiVars, streamVars, speechVars>>

\* One turn of the read loop of response r: reader.read() returns the next
\* k symbols; they are appended to the buffer, the buffer is split on blank
\* lines, the last piece stays in the buffer and every other piece is parsed
\* and dispatched.
ReadChunk(r, k) ==
  /\ status[r] = "reading"
  /\ pos + k <= Len(stream)
  /\ LET buf == buffer \o SubSeq(stream, pos + 1, pos + k)
         events == SplitBlocks(buf, <<>>)
         acc == DispatchBlocks(SubSeq(events, 1, Len(events) - 1), r,
                  [st |-> [messages |-> messages, voice |-> VoiceRec],
                   log |-> dispatched[r]])
     IN /\ buffer' = KeepIncomplete(events)
        /\ dispatched' = [dispatched EXCEPT ![r] = acc.log]
        /\ messages' = acc.st.messages
        /\ SetVoice(acc.st.voice)
        /\ browserSpoken' =
              onTextEvent(browserSpoken,
                          SubSeq(acc.log, Len(dispatched[r]) + 1, Len(acc.log)),
                          respMode[r])
  /\ pos' = pos + k
  /\ UNCHANGED <<ttsMode, respMode, paneMuted, paneBrowserMuted>>
  /\ UNCHANGED <<streamVars, speechVars>>
  /\ UNCHANGED <<status, eventSourceRef, currentMessageIdRef, frames, stream>>
  /\ UNCHANGED <<isMuted, timers, errPending, revoked, resp, respMuted>>

InitVoice ==
  /\ audioQueue = <<>>
  /\ currentAudio = NoClip
  /\ isProcessing = FALSE
  /\ isMuted = FALSE
  /\ isSpeaking = FALSE
  /\ timers = 0
  /\ phase = [c \in Clips |-> "none"]
  /\ promise = [c \in Clips |-> "none"]
  /\ errPending = [c \in Clips |-> FALSE]
  /\ revoked = [c \in Clips |-> 0]
  /\ nextClip = 1
  /\ startLog = <<>>
  /\ clipResp = [c \in Clips |-> 0]

InitChat ==
  /\ resp = 0
  /\ respMuted = [r \in Resps |-> FALSE]
  /\ messages = <<>>
  /\ status = [r \in Resps |-> "idle"]
  /\ dispatched = [r \in Resps |-> <<>>]
  /\ eventSourceRef = Null
  /\ currentMessageIdRef = 0

InitNoStream ==
  /\ frames = <<>>
  /\ stream = <<>>
  /\ pos = 0
  /\ buffer = <<>>

InitNoText ==
  /\ accumulated = <<>>
  /\ lastProcessedLen = 0
  /\ seenToolMatches = {}

\* useVoice before any speakText call, no message to speak
InitNoSentences ==
  /\ msgText = <<>>
  /\ givenLen = 0
  /\ lastSpokenIndex = 0
  /\ extracted = <<>>
  /\ callText = <<>>
  /\ callStart = 0
  /\ complete = FALSE

\* useVoice after construction: the queue is empty, no speakText call yet
InitTts ==
  /\ ttsQueue = <<>>
  /\ isTtsBusy = FALSE
  /\ callState = [c \in Calls |-> "none"]
  /\ callLeft = [c \in Calls |-> 0]
  /\ callJob = [c \in Calls |-> 0]
  /\ jobState = [j \in Jobs |-> "none"]
  /\ jobCall = [j \in Jobs |-> 0]
  /\ nextJob = 1
  /\ ttsStartLog = <<>>
  /\ callFrom = [c \in Calls |-> 0]
  /\ callCount = [c \in Calls |-> 0]
  /\ jobSentence = [j \in Jobs |-> 0]
  /\ ttsCursor = 0
  /\ voiceMuted = FALSE

\* useBrowserTTS after construction, speechSynthesis idle
InitBrowser ==
  /\ queueRef = <<>>
  /\ isProcessingRef = FALSE
  /\ utteranceRef = 0
  /\ browserMuted = FALSE
  /\ browserSpeaking = FALSE
  /\ browserTimers = 0
  /\ uttState = [u \in Utts |-> "none"]
  /\ cutBy = [u \in Utts |-> "none"]
  /\ uttLog = <<>>
  /\ nextUtt = 1

\* voice input after construction
InitStt ==
  /\ isRecording = FALSE
  /\ isProcessingSTT = FALSE
  /\ mediaRecorderRef = 0
  /\ recState = [r \in Recs |-> "none"]
  /\ recTimer = [r \in Recs |-> FALSE]

\* no request made yet
InitApi ==
  /\ apiState = "idle"
  /\ attempt = 0
  /\ apiRetries = 0
  /\ apiStream = FALSE
  /\ apiTimed = FALSE
  /\ fetches = 0
  /\ outLog = <<>>
  /\ apiResult = Null

InitIo == InitStt /\ InitApi

InitNoSpeech == InitNoSentences /\ InitTts /\ InitBrowser /\ InitIo

InitUI ==
  /\ ttsMode = "openai"
  /\ respMode = [r \in Resps |-> "openai"]
  /\ paneMuted = FALSE
  /\ paneBrowserMuted = FALSE
  /\ browserSpoken = <<>>

\* ---- Spec: the playback scheduler fed by the audio events of the latest
\* response, with the clips' events, the timers and stopSpeaking calls.
Init == InitVoice /\ InitChat /\ InitNoStream /\ InitUI /\ InitNoText /\ InitNoSpeech

Next ==
  \/ SendMessage
  \/ \E r \in Resps : FetchResolves(r)
  \/ \E ev \in AudioEvents : DeliverFrame(resp, ev)
  \/ \E c \in Clips : AudioEnded(c)
  \/ \E c \in Clips : AudioError(c)
  \/ \E c \in Clips : PlayRejected(c)
  \/ TimerFires
  \/ StopSpeaking

Spec == Init /\ [][Next]_vars

\* ---- SpecChat: the responses of one chat, frame by frame.
NextChat ==
  \/ SendMessage
  \/ \E r \in Resps : FetchResolves(r)
  \/ \E r \in Resps : FetchFails(r)
  \/ \E r \in Resps, ev \in EventInputs :
        FramesDispatched < MaxFrames /\ DeliverFrame(r, ev)
  \/ \E r \in Resps : ReadDone(r)
  \/ \E r \in Resps : ReadFails(r)

SpecChat == Init /\ [][NextChat]_vars

\* ---- SpecSSE: one response, its byte stream read in arbitrary chunks.
\* Init is the state after sendMessage and a successful fetch.
MaxStreamFrames == 2

FrameSeqs == UNION { [1..n -> FrameKinds] : n \in 1..MaxStreamFrames }

InitSSE ==
  /\ InitVoice
  /\ InitUI
  /\ InitNoText
  /\ InitNoSpeech
  /\ resp = 1
  /\ respMuted = [r \in Resps |-> FALSE]
  /\ messages = <<UserMsg, BotMsg(1)>>
  /\ status = [r \in Resps |-> IF r = 1 THEN "reading" ELSE "idle"]
  /\ dispatched = [r \in Resps |-> <<>>]
  /\ eventSourceRef = Null
  /\ currentMessageIdRef = 1
  /\ frames \in FrameSeqs
  /\ stream = Serialize(frames)
  /\ pos = 0
  /\ buffer = <<>>

NextSSE ==
  \/ \E k \in 1..Len(stream) : ReadChunk(1, k)
  \/ pos = Len(stream) /\ ReadDone(1)

SpecSSE == InitSSE /\ [][NextSSE]_vars

\* ---- SpecLive: the scheduler fed by the audio events of one response, with
\* no stop call.  Init is the state after sendMessage and a successful fetch.
\* Fairness: a pending timer fires, and a playing clip fires ended or error.
InitLive ==
  /\ InitVoice
  /\ InitUI
  /\ InitNoText
  /\ InitNoSpeech
  /\ InitNoStream
  /\ resp = 1
  /\ respMuted = [r \in Resps |-> FALSE]
  /\ messages = <<UserMsg, BotMsg(1)>>
  /\ status = [r \in Resps |-> IF r = 1 THEN "reading" ELSE "idle"]
  /\ dispatched = [r \in Resps |-> <<>>]
  /\ eventSourceRef = Null
  /\ currentMessageIdRef = 1

NextLive ==
  \/ \E ev \in AudioEvents : DeliverFrame(1, ev)
  \/ \E c \in Clips : AudioEnded(c)
  \/ \E c \in Clips : AudioError(c)
  \/ \E c \in Clips : PlayRejected(c)
  \/ TimerFires

SpecLive ==
  /\ InitLive
  /\ [][NextLive]_vars
  /\ WF_vars(TimerFires)
  /\ \A c \in Clips : WF_vars(AudioEnded(c) \/ AudioError(c))

\* ---- SpecUI: the application as the user drives it: sending, the speaker
\* button of the composer, the TTS mode selector, with text and audio frames
\* of the responses and clips that play to their end.

\* The speaker button: MainPane's currentStopSpeaking, which is stopSpeaking
\* of MainPane's own useStreamingVoice instance in openai mode and of its own
\* useBrowserTTS instance in browser mode.  No audio event reaches either
\* instance, so their queues are empty and the call only toggles isMuted
\* (speechSynthesis.cancel() acts on the browser's utterances).
SpeakerButton ==
  /\ IF ttsMode = "openai"
     THEN paneMuted' = ~paneMuted /\ UNCHANGED paneBrowserMuted
     ELSE paneBrowserMuted' = ~paneBrowserMuted /\ UNCHANGED paneMuted
  /\ UNCHANGED <<ttsMode, respMode, browserSpoken>>
  /\ UNCHANGED <<voiceVars, chatVars, sseVars, streamVars, speechVars>>

\* AppShell.handleTTSModeChange(mode): set the mode and stop the scheduler
\* when it is speaking (browserTTSHook.stopSpeaking acts on the utterances).
TTSModeChange(mode) ==
  /\ ttsMode' = mode
  /\ IF isSpeaking THEN stopSpeaking ELSE UNCHANGED voiceVars
  /\ UNCHANGED <<respMode, paneMuted, paneBrowserMuted, browserSpoken>>
  /\ UNCHANGED <<chatVars, sseVars, streamVars, speechVars>>

\* The producer's policy: no audio frame in a response requested with
\* tts_mode 'browser'.
ProducerSends(r, ev) == ev.type = "audio" => respMode[r] = "openai"

UIEvents == { Event("text", "a", "", "", ""), Event("audio", "", "ok", "", "") }

NextUI ==
  \/ SendMessage
  \/ \E r \in Resps : FetchResolves(r)
  \/ \E r \in Resps, ev \in UIEvents :
        /\ FramesDispatched < MaxFrames
        /\ ProducerSends(r, ev)
        /\ DeliverFrame(r, ev)
  \/ \E c \in Clips : AudioEnded(c)
  \/ TimerFires
  \/ SpeakerButton
  \/ \E mode \in {"openai", "browser"} : TTSModeChange(mode)

SpecUI == Init /\ [][NextUI]_vars

\* C17: the stop action of the speaker button acts on the scheduler that
\* receives the audio events: pressing it in openai mode (button not in its
\* muted state) while a clip of the current response is playing leaves that
\* scheduler with no clip playing and an empty queue.
C17_ButtonStopsScheduler ==
  [][(/\ ttsMode = "openai"
      /\ ~paneMuted /\ paneMuted'
      /\ \E c \in Active : clipResp[c] = resp)
        => /\ \A c \in Clips : phase'[c] # "active"
           /\ audioQueue' = <<>>]_vars

\* C18: while ttsMode is 'browser' an audio event starts no MP3 clip and each
\* dispatched text event with non-blank content is passed to browser TTS
\* once; while ttsMode is 'openai' no text event is passed to browser TTS.
C18_OneMechanismPerMode ==
  [][\A r \in 1..resp :
       Len(dispatched'[r]) = Len(dispatched[r]) + 1 =>
         LET ev == dispatched'[r][Len(dispatched'[r])] IN
         /\ (ttsMode = "browser" /\ ev.type = "audio") =>
               (startLog' = startLog /\ audioQueue' = audioQueue)
         /\ (ttsMode = "browser" /\ ev.type = "text" /\ ev.content # "") =>
               browserSpoken' = Append(browserSpoken, ev.content)
         /\ (ttsMode = "openai" /\ ev.type = "text") =>
               browserSpoken' = browserSpoken]_vars

\* ===================================================== playback scheduler
\* IDLE: processing flag off, queue empty, no current and no playing clip
SchedulerIdle ==
  /\ ~isProcessing
  /\ audioQueue = <<>>
  /\ currentAudio = NoClip
  /\ Active = {}

\* C16: with no stop call, under fairness of the clips' ended/error events
\* and of the timers, every enqueued clip is eventually played, and the
\* scheduler returns to IDLE again and again (after the last clip, for good).
C16_EventuallyPlayedThenIdle ==
  /\ \A c \in Clips : (phase[c] = "queued") ~> (phase[c] \in {"active", "over"})
  /\ []<>SchedulerIdle
  /\ <>[](timers = 0 => SchedulerIdle)

\* C16 witness: every clip was enqueued and played, the second and third
\* after waiting in the queue, and the scheduler is back in IDLE.
C16_Witness ==
  /\ Len(startLog) = MaxClips
  /\ \A c \in Clips : phase[c] = "over"
  /\ timers = 0
  /\ SchedulerIdle

\* C1: at most one audio clip is playing at any time.
C1_AtMostOnePlaying == Cardinality(Active) <= 1

\* C2: clips are started in the order playAudio enqueued them, none twice,
\* and when a clip is started every clip enqueued before it has already been
\* started or was dropped by stopSpeaking (none is skipped over).
C2_StartOrder ==
  /\ \A i, j \in 1..Len(startLog) : i < j => startLog[i] < startLog[j]
  /\ \A i \in 1..Len(startLog) :
       \A c \in Created : c < startLog[i] => phase[c] # "queued"
  /\ \A c \in Created :
       phase[c] \in {"active", "stopped", "over"} <=> c \in SeqToSet(startLog)
  /\ \A i \in 1..Len(audioQueue) : phase[audioQueue[i]] = "queued"
  /\ \A c \in Created : phase[c] = "queued" => c \in SeqToSet(audioQueue)

\* C2 witness: three clips were started, two of them while another was still
\* playing, and the log is still in enqueue order.
C2_Witness ==
  /\ Len(startLog) = 3
  /\ Cardinality(Active) >= 2

\* C3: stopSpeaking called while unmuted leaves an empty queue, no active
\* clip, the lock released and the hook muted, and nothing that was queued or
\* playing before the call is playing after it.
C3_StopLeavesIdle ==
  [][(~isMuted /\ isMuted') =>
        /\ audioQueue' = <<>>
        /\ currentAudio' = NoClip
        /\ ~isProcessing'
        /\ \A c \in Clips : phase'[c] # "active"]_vars

\* C4: every created object URL is revoked exactly once; right after
\* stopSpeaking no created URL is left unrevoked and none is revoked twice.
C4_UrlReleasedOnce ==
  [][(~isMuted /\ isMuted') =>
        \A c \in Clips : phase'[c] \in {"queued", "active", "stopped", "over", "discarded"}
                           => revoked'[c] = 1]_vars

\* C14: a playAudio call made while a clip is playing appends the new clip at
\* the tail of the queue, leaves the active clip and the clips already queued
\* unchanged, and does not start playback of the new clip.
C14_EnqueueWhilePlaying ==
  [][(/\ Active # {}
      /\ nextClip' = nextClip + 1
      /\ phase'[nextClip] \in {"queued", "active"})
        => /\ audioQueue' = Append(audioQueue, nextClip)
           /\ currentAudio' = currentAudio
           /\ startLog' = startLog
           /\ \A c \in Clips : c # nextClip => phase'[c] = phase[c]]_vars

\* C15: stopSpeaking called while muted only clears the muted flag (queue,
\* active clip, processing flag and every clip are unchanged), and a clip
\* that a stop removed (paused, or dropped from the queue) never plays again.
C15_UnmuteOnlyUnmutes ==
  [][/\ (isMuted /\ ~isMuted') =>
          /\ audioQueue' = audioQueue
          /\ currentAudio' = currentAudio
          /\ isProcessing' = isProcessing
          /\ phase' = phase
          /\ startLog' = startLog
     /\ \A c \in Clips :
          phase[c] \in {"stopped", "discarded"} => phase'[c] = phase[c]]_vars

\* C15 witness: the hook was unmuted after a stop that dropped a queued clip
\* (only the unmute branch clears the muted flag), and a clip of a later audio
\* event is playing with the lock held.
C15_Witness ==
  /\ ~isMuted
  /\ isProcessing
  /\ \E c \in Clips : phase[c] = "discarded"
  /\ Active # {}

\* C6: when the first audio event of a new response is enqueued, the
\* scheduler holds no queued and no playing clip of an earlier response.
C6_FreshSchedulerPerResponse ==
  [][(/\ nextClip' = nextClip + 1
      /\ phase'[nextClip] \in {"queued", "active"}
      /\ \A c \in Clips : c < nextClip => clipResp[c] # resp)
        => \A c \in Clips : phase'[c] \in {"queued", "active"} => clipResp'[c] = resp]_vars

\* ======================================================= SSE read loop
\* the events of the frames, each parsed on its own, in stream order
RECURSIVE FrameEvents(_)
FrameEvents(fs) ==
  IF fs = <<>> THEN <<>> ELSE parseSSEEvent(Head(fs)) \o FrameEvents(Tail(fs))

\* what the read loop leaves when the whole stream arrives as one chunk
SingleChunk ==
  LET events == SplitBlocks(stream, <<>>)
  IN DispatchBlocks(SubSeq(events, 1, Len(events) - 1), 1,
       [st |-> [messages |-> <<UserMsg, BotMsg(1)>>,
                voice |-> [audioQueue |-> <<>>, currentAudio |-> NoClip,
                           isProcessing |-> FALSE, isSpeaking |-> FALSE,
                           phase |-> [c \in Clips |-> "none"],
                           promise |-> [c \in Clips |-> "none"],
                           startLog |-> <<>>, nextClip |-> 1,
                           clipResp |-> [c \in Clips |-> 0]]],
        log |-> <<>>])

\* C7: however a stream of complete frames is cut into chunks, the read loop
\* dispatches what it dispatches for the stream in one chunk: the event of
\* each frame, once, in stream order (and leaves the same chat and queue).
C7_ChunkingInvariant ==
  /\ IsPrefix(dispatched[1], FrameEvents(frames))
  /\ pos = Len(stream) =>
       /\ dispatched[1] = SingleChunk.log
       /\ dispatched[1] = FrameEvents(frames)
       /\ messages = SingleChunk.st.messages
       /\ VoiceRec = SingleChunk.st.voice
       /\ buffer = <<>>

\* C7 witness: two frames, the first already dispatched, and the last chunk
\* ended between the two newlines that terminate the second.
C7_Witness ==
  /\ Len(frames) = 2
  /\ Len(dispatched[1]) = 1
  /\ pos = Len(stream) - 1
  /\ buffer # <<>>
  /\ buffer[Len(buffer)] = "n"

\* =============================================================== the chat
\* the assistant message sendMessage created for response r
MsgOf(r) ==
  LET i == CHOOSE i \in 1..Len(messages) :
             messages[i].role = "assistant" /\ messages[i].id = r
  IN messages[i]

RECURSIVE TextOf(_)
TextOf(evs) ==
  IF evs = <<>> THEN <<>>
  ELSE (IF Head(evs).type = "text" /\ Head(evs).content # ""
        THEN <<Head(evs).content>> ELSE <<>>) \o TextOf(Tail(evs))

RECURSIVE AttachmentsOf(_)
AttachmentsOf(evs) ==
  IF evs = <<>> THEN <<>>
  ELSE (IF Head(evs).type = "molecule" THEN <<Head(evs).name>> ELSE <<>>)
       \o AttachmentsOf(Tail(evs))

HasType(evs, types) == \E i \in 1..Len(evs) : evs[i].type \in types

\* C5: once sendMessage has been called again, no further event of an
\* earlier response is dispatched.
C5_EarlierStreamClosed ==
  [][\A r \in Resps : r < resp => dispatched'[r] = dispatched[r]]_vars

\* C8: for a response without error, the text of its assistant message is
\* the concatenation of the text events dispatched for it so far, and its
\* attachments are the molecule events dispatched for it so far.
C8_TextIsConcat ==
  \A r \in 1..resp :
    (status[r] # "failed" /\ ~HasType(dispatched[r], {"error"})) =>
       /\ MsgOf(r).text = TextOf(dispatched[r])
       /\ MsgOf(r).attachments = AttachmentsOf(dispatched[r])

\* C9: once done (or complete) was dispatched for a response, no event
\* dispatched later changes that response's assistant message.
C9_FinalAfterDone ==
  [][\A r \in 1..resp :
       (HasType(dispatched[r], {"done", "complete"}) /\ dispatched' # dispatched)
          => MsgOf(r)' = MsgOf(r)]_vars

\* C10: when the fetch or a read of response r fails, that response's
\* assistant message keeps its attachments and its text as a prefix and gets
\* one error annotation appended.
C10_ErrorKeepsPrefix ==
  [][\A r \in 1..resp :
       (status[r] \in {"fetching", "reading"} /\ status'[r] = "failed") =>
          /\ MsgOf(r)'.attachments = MsgOf(r).attachments
          /\ \E e \in {"http", "read"} :
                MsgOf(r)'.text = MsgOf(r).text \o ErrorNote(e)]_vars

\* C11: dispatching an error event of response r appends the error
\* annotation to the text of r's assistant message, keeping the text rendered
\* before as a prefix and the attachments, and leaves the playback queue and
\* the active clip untouched.
C11_ErrorEventAnnotates ==
  [][\A r \in 1..resp :
       (/\ Len(dispatched'[r]) = Len(dispatched[r]) + 1
        /\ dispatched'[r][Len(dispatched'[r])].type = "error")
          => /\ MsgOf(r)'.text =
                  MsgOf(r).text \o ErrorNote(dispatched'[r][Len(dispatched'[r])].message)
             /\ MsgOf(r)'.attachments = MsgOf(r).attachments
             /\ audioQueue' = audioQueue
             /\ currentAudio' = currentAudio
             /\ phase' = phase]_vars

\* ============================================== frames that are to be skipped
\* what the read loop leaves when the stream s arrives as one chunk
WholeStream(s) ==
  LET events == SplitBlocks(s, <<>>)
  IN DispatchBlocks(SubSeq(events, 1, Len(events) - 1), 1,
       [st |-> [messages |-> <<UserMsg, BotMsg(1)>>,
                voice |-> [audioQueue |-> <<>>, currentAudio |-> NoClip,
                           isProcessing |-> FALSE, isSpeaking |-> FALSE,
                           phase |-> [c \in Clips |-> "none"],
                           promise |-> [c \in Clips |-> "none"],
                           startLog |-> <<>>, nextClip |-> 1,
                           clipResp |-> [c \in Clips |-> 0]]],
        log |-> <<>>])

\* the frame has a data line on which JSON.parse throws
BadData(frame) ==
  \E line \in SeqToSet(SplitLines(frame, <<>>)) :
     line # <<>> /\ line[1] = "D" /\ ~JSONParse(Join(Tail(line))).ok

\* the event name of the frame: its last 'event:' line, else 'message'
FrameName(frame) ==
  ParseLines(SplitLines(frame, <<>>), "message",
             [ok |-> TRUE, truthy |-> FALSE, val |-> Event("", "", "", "", "")]).eventType

KnownNames == {"text", "audio", "molecule", "complete", "done", "error"}

GoodData(frame) == ~BadData(frame)
KnownName(frame) == FrameName(frame) \in KnownNames

\* the chat text and attachments, and the number of clips created by playAudio
Effects(st) ==
  [messages |-> st.messages,
   clips |-> Len(st.voice.audioQueue) + Len(st.voice.startLog)]

\* C12: a frame whose data line is not valid JSON is skipped: once the whole
\* stream is read, the chat (text and attachments of every message) and the
\* clips handed to playAudio are those of the same stream without the frames
\* whose data is not JSON.
C12_BadJsonSkipped ==
  pos = Len(stream) =>
     Effects([messages |-> messages, voice |-> VoiceRec])
       = Effects(WholeStream(Serialize(SelectSeq(frames, GoodData))).st)

\* C13: a frame whose event name is not text, audio, molecule, complete, done
\* or error is skipped, and the handler of a frame is selected by its event
\* name only: once the whole stream is read, the chat and the clips handed to
\* playAudio are those of the same stream without the frames of unknown name.
C13_UnknownNameSkipped ==
  pos = Len(stream) =>
     Effects([messages |-> messages, voice |-> VoiceRec])
       = Effects(WholeStream(Serialize(SelectSeq(frames, KnownName))).st)

\* ============================================ useChatStream (chat-ui)
\* The plain text stream of a response is a sequence of symbols: "q" a
\* backtick, "j" the word json, "s" a space, "n" a newline, "{" and "}",
\* "V" the text [EVENT], "a" and "x" other text, and the JSON members
\*   "T" "tool":"draw_molecule"     "O" "tool":"other"
\*   "M" "type":"molecule"
\*   "W" "name":"water"   "H" "name":"hexane"   "B" "name":"benzene"
\* A chunk boundary may fall between any two symbols.

IsSpace(x) == x \in {"s", "n"}

\* \s* from index i: the index of the first symbol that is not white space
RECURSIVE SkipSpace(_, _)
SkipSpace(s, i) ==
  IF i <= Len(s) /\ IsSpace(s[i]) THEN SkipSpace(s, i + 1) ELSE i

\* index of the first x at or after i, 0 when there is none
RECURSIVE FirstIndex(_, _, _)
FirstIndex(s, i, x) ==
  IF i > Len(s) THEN 0
  ELSE IF s[i] = x THEN i ELSE FirstIndex(s, i + 1, x)

\* index of the last x in s[lo..hi], 0 when there is none
RECURSIVE LastIndex(_, _, _, _)
LastIndex(s, lo, hi, x) ==
  IF hi < lo THEN 0
  ELSE IF s[hi] = x THEN hi ELSE LastIndex(s, lo, hi - 1, x)

IsFence(s, i) ==
  i >= 1 /\ i + 2 <= Len(s) /\ s[i] = "q" /\ s[i + 1] = "q" /\ s[i + 2] = "q"

NoMatch == [ok |-> FALSE, from |-> 0, to |-> 0, open |-> 0, close |-> 0]

\* toolRegex (fence, optional json, spaces, a brace group without "}" inside
\* that contains "tool", spaces, fence) tried at index i:
\* the match s[from..to] and its group s[open..close]
toolRegexAt(s, i) ==
  IF ~IsFence(s, i) THEN NoMatch
  ELSE LET a == IF i + 3 <= Len(s) /\ s[i + 3] = "j" THEN i + 4 ELSE i + 3
           b == SkipSpace(s, a)
       IN IF b > Len(s) \/ s[b] # "{" THEN NoMatch
          ELSE LET c == FirstIndex(s, b + 1, "}")
               IN IF c = 0 \/ ~(\E k \in (b + 1)..(c - 1) : s[k] \in {"T", "O"})
                  THEN NoMatch
                  ELSE LET d == SkipSpace(s, c + 1)
                       IN IF IsFence(s, d)
                          THEN [ok |-> TRUE, from |-> i, to |-> d + 2,
                                open |-> b, close |-> c]
                          ELSE NoMatch

\* the [EVENT] regex ([EVENT], "{", one or more characters other than a
\* newline, "}") tried at index i: greedy up to the last "}" of the line
eventRegexAt(s, i) ==
  IF ~(i + 1 <= Len(s) /\ s[i] = "V" /\ s[i + 1] = "{") THEN NoMatch
  ELSE LET nl == FirstIndex(s, i + 2, "n")
           eol == IF nl = 0 THEN Len(s) ELSE nl - 1
           c == LastIndex(s, i + 3, eol, "}")
       IN IF c = 0 THEN NoMatch
          ELSE [ok |-> TRUE, from |-> i, to |-> c, open |-> i + 1, close |-> c]

\* the successive matches of a global regex from index i on (exec loop,
\* matchAll): leftmost first, the next search starting after the match
\* the regex named re ("tool" or "event") tried at index i
regexAt(re, s, i) == IF re = "tool" THEN toolRegexAt(s, i) ELSE eventRegexAt(s, i)

RECURSIVE AllMatches(_, _, _)
AllMatches(re, s, i) ==
  IF i > Len(s) THEN <<>>
  ELSE LET m == regexAt(re, s, i)
       IN IF m.ok THEN <<m>> \o AllMatches(re, s, m.to + 1)
          ELSE AllMatches(re, s, i + 1)

\* index of the last symbol of s that is in S, 0 when there is none
RECURSIVE LastIn(_, _, _)
LastIn(s, i, S) ==
  IF i = 0 THEN 0 ELSE IF s[i] \in S THEN i ELSE LastIn(s, i - 1, S)

\* JSON.parse of a brace group: ok is FALSE when it throws; tool, type and
\* name are the members the code reads ("" when absent, the last one wins)
JSONParseObject(g) ==
  LET inner == SubSeq(g, 2, Len(g) - 1)
      t == LastIn(inner, Len(inner), {"T", "O"})
      n == LastIn(inner, Len(inner), {"W", "H", "B"})
  IN [ok   |-> \A k \in 1..Len(inner) :
                  inner[k] \in {"T", "O", "M", "W", "H", "B", "s"},
      tool |-> IF t = 0 THEN "" ELSE IF inner[t] = "T" THEN "draw_molecule" ELSE "other",
      type |-> IF \E k \in 1..Len(inner) : inner[k] = "M" THEN "molecule" ELSE "",
      name |-> IF n = 0 THEN ""
               ELSE IF inner[n] = "W" THEN "water"
               ELSE IF inner[n] = "H" THEN "hexane" ELSE "benzene"]

\* (mutant) the seen-set never recognising a match
seenHas_never(seen, fullMatch) == FALSE

\* seenSet.has(fullMatch)
seenHas(seen, fullMatch) == fullMatch \in seen

\* The while loop of processStreamChunk over the matches ms of toolRegex in
\* buf; acc = [toAttach, seen].
RECURSIVE ScanTools(_, _, _)
ScanTools(ms, buf, acc) ==
  IF ms = <<>> THEN acc
  ELSE LET m == Head(ms)
           fullMatch == SubSeq(buf, m.from, m.to)
           obj == JSONParseObject(SubSeq(buf, m.open, m.close))
       IN IF seenHas(acc.seen, fullMatch) \/ ~obj.ok \/ obj.tool # "draw_molecule"
          THEN ScanTools(Tail(ms), buf, acc)
          ELSE ScanTools(Tail(ms), buf,
                 [toAttach |-> acc.toAttach \o
                                 (IF obj.name # "" THEN <<obj.name>> ELSE <<>>),
                  seen |-> acc.seen \cup {fullMatch}])

\* The for loop of processStreamChunk over the matches ms of the [EVENT]
\* regex in buf: one setChats per molecule event.
RECURSIVE ScanEvents(_, _, _)
ScanEvents(ms, buf, msgs) ==
  IF ms = <<>> THEN msgs
  ELSE LET m == Head(ms)
           evt == JSONParseObject(SubSeq(buf, m.open, m.close))
       IN ScanEvents(Tail(ms), buf,
            IF evt.ok /\ evt.type = "molecule" /\ evt.name # ""
            THEN UpdateLast(msgs, <<>>, <<evt.name>>)
            ELSE msgs)

\* some match of the regex named re in buf holds a brace group on which
\* JSON.parse throws
ParseThrows(re, buf) ==
  LET ms == AllMatches(re, buf, 1)
  IN \E i \in 1..Len(ms) : ~JSONParseObject(SubSeq(buf, ms[i].open, ms[i].close)).ok

\* (mutant) a loop body without its try/catch: the exception leaves
\* processStreamChunk
Swallow_rethrow(threw) == threw

\* try { ... JSON.parse ... } catch (_) {} around the body of both loops, and
\* once more around the whole function: whether an exception thrown in a
\* loop body leaves processStreamChunk
Swallow(threw) == FALSE

\* processStreamChunk(buffer, selectedId): the chat and the seen-set it
\* leaves, and whether it threw
processStreamChunk(buf, seen, msgs) ==
  LET t == ScanTools(AllMatches("tool", buf, 1), buf,
                     [toAttach |-> <<>>, seen |-> seen])
      m1 == IF t.toAttach # <<>> THEN UpdateLast(msgs, <<>>, t.toAttach) ELSE msgs
  IN [messages |-> ScanEvents(AllMatches("event", buf, 1), buf, m1),
      seen |-> t.seen,
      threw |-> Swallow(ParseThrows("tool", buf) \/ ParseThrows("event", buf))]

\* The catch block of useChatStream's sendMessage: the note goes to the last
\* message of the chat, whatever its role.
CatchTextError(msgs, err) ==
  IF msgs = <<>> THEN msgs
  ELSE [msgs EXCEPT ![Len(msgs)] = [@ EXCEPT !.text = @ \o ErrorNote(err)]]

\* s.replace(regex, ''), the regex optionally followed by \n?
RECURSIVE RemoveMatches(_, _, _, _)
RemoveMatches(re, s, i, eatNewline) ==
  IF i > Len(s) THEN <<>>
  ELSE LET m == regexAt(re, s, i)
       IN IF m.ok
          THEN RemoveMatches(re, s,
                 IF eatNewline /\ m.to + 1 <= Len(s) /\ s[m.to + 1] = "n"
                 THEN m.to + 2 ELSE m.to + 1,
                 eatNewline)
          ELSE <<s[i]>> \o RemoveMatches(re, s, i + 1, eatNewline)

\* displayDelta: the delta without tool fences and event markers
displayDelta(delta) ==
  RemoveMatches("event", RemoveMatches("tool", delta, 1, FALSE), 1, TRUE)

\* One turn of the read loop of useChatStream's sendMessage for response r:
\* reader.read() returns the next k characters.
ReadText(r, k) ==
  /\ status[r] = "reading"
  /\ k >= 1
  /\ pos + k <= Len(stream)
  /\ LET acc == accumulated \o SubSeq(stream, pos + 1, pos + k)
         delta == SubSeq(acc, lastProcessedLen + 1, Len(acc))
     IN \E p \in {processStreamChunk(acc, seenToolMatches, messages)},
           shown \in {displayDelta(delta)} :
        /\ accumulated' = acc
        /\ lastProcessedLen' = Len(acc)
        /\ IF p.threw
           THEN /\ messages' = CatchTextError(messages, "parse")
                /\ status' = [status EXCEPT ![r] = "failed"]
                /\ UNCHANGED seenToolMatches
           ELSE /\ seenToolMatches' = p.seen
                /\ messages' = IF shown # <<>> THEN UpdateLast(p.messages, shown, <<>>)
                               ELSE p.messages
                /\ UNCHANGED status
  /\ pos' = pos + k
  /\ UNCHANGED <<dispatched, eventSourceRef, currentMessageIdRef>>
  /\ UNCHANGED <<frames, stream, buffer>>
  /\ UNCHANGED <<voiceVars, uiVars, speechVars>>

\* reader.read() reports done: the chunk is empty and the loop ends.
TextDone(r) ==
  /\ status[r] = "reading"
  /\ status' = [status EXCEPT ![r] = "closed"]
  /\ UNCHANGED <<messages, dispatched, eventSourceRef, currentMessageIdRef>>
  /\ UNCHANGED <<voiceVars, sseVars, uiVars, streamVars, speechVars>>

\* ---- SpecText: one response of a new chat, its text stream read in
\* arbitrary chunks.  Init is the state after sendMessage has added the two
\* messages and sendRagMessage has resolved.
MaxPieces == 2

TextPieces ==
  { <<"a">>,
    <<"q", "q", "q", "j", "{", "T", "W", "}", "q", "q", "q">>,  \* draw water
    <<"q", "q", "q", "{", "T", "W", "}", "n", "q", "q", "q">>,  \* draw water
    <<"q", "q", "q", "{", "T", "H", "x", "}", "q", "q", "q">>,  \* not JSON
    <<"V", "{", "M", "B", "}", "n">>,                           \* benzene
    <<"V", "{", "M", "H", "x", "}", "n">> }                     \* not JSON

PieceSeqs == UNION { [1..n -> TextPieces] : n \in 1..MaxPieces }

RECURSIVE Flatten(_)
Flatten(ps) == IF ps = <<>> THEN <<>> ELSE Head(ps) \o Flatten(Tail(ps))

InitText ==
  /\ InitVoice
  /\ InitUI
  /\ resp = 1
  /\ respMuted = [r \in Resps |-> FALSE]
  /\ messages = <<UserMsg, BotMsg(1)>>
  /\ status = [r \in Resps |-> IF r = 1 THEN "reading" ELSE "idle"]
  /\ dispatched = [r \in Resps |-> <<>>]
  /\ eventSourceRef = Null
  /\ currentMessageIdRef = 0
  /\ frames \in PieceSeqs
  /\ stream = Flatten(frames)
  /\ pos = 0
  /\ buffer = <<>>
  /\ InitNoText
  /\ InitNoSpeech

NextText ==
  \/ \E k \in 1..Len(stream) : ReadText(1, k)
  \/ pos = Len(stream) /\ TextDone(1)

SpecText == InitText /\ [][NextText]_vars

\* ================================================= payload scan (chat-ui)
\* the names of the attachments that fenced tool payloads produce
IsFencedName(name) == name \in {"water", "hexane"}

\* The well-formed draw_molecule payloads among the toolRegex matches ms of
\* buf, one per distinct payload text, in order of first occurrence.
RECURSIVE DistinctPayloads(_, _, _)
DistinctPayloads(ms, buf, texts) ==
  IF ms = <<>> THEN <<>>
  ELSE LET m == Head(ms)
           full == SubSeq(buf, m.from, m.to)
           obj == JSONParseObject(SubSeq(buf, m.open, m.close))
       IN IF full \in texts \/ ~obj.ok \/ obj.tool # "draw_molecule" \/ obj.name = ""
          THEN DistinctPayloads(Tail(ms), buf, texts)
          ELSE <<obj.name>> \o DistinctPayloads(Tail(ms), buf, texts \cup {full})

\* C19: however the characters of a fenced tool payload are split over the
\* chunks, its attachment is in the message exactly once, from the chunk that
\* completes the payload on and not before: after every chunk the attachments
\* of fenced payloads are those of the complete payloads read so far.
C19_SplitPayloadOnce ==
  SelectSeq(MsgOf(1).attachments, IsFencedName)
    = DistinctPayloads(AllMatches("tool", accumulated, 1), accumulated, {})

\* C19 witness: a fenced payload followed by text was read to the end in
\* chunks that split the payload (no chunk held it whole, so nothing was
\* stripped from the text), and its attachment is there once.
C19_Witness ==
  /\ Len(frames) = 2
  /\ frames[1] = <<"q", "q", "q", "j", "{", "T", "W", "}", "q", "q", "q">>
  /\ frames[2] = <<"a">>
  /\ pos = Len(stream)
  /\ MsgOf(1).text = stream
  /\ MsgOf(1).attachments = <<"water">>

\* number of well-formed payload occurrences in buf: fenced draw_molecule
\* blocks and [EVENT] molecule markers that carry a name
PayloadCount(buf) ==
  LET tm == AllMatches("tool", buf, 1)
      em == AllMatches("event", buf, 1)
      Obj(m) == JSONParseObject(SubSeq(buf, m.open, m.close))
  IN Cardinality({i \in 1..Len(tm) :
                    Obj(tm[i]).ok /\ Obj(tm[i]).tool = "draw_molecule" /\ Obj(tm[i]).name # ""})
     + Cardinality({i \in 1..Len(em) :
                    Obj(em[i]).ok /\ Obj(em[i]).type = "molecule" /\ Obj(em[i]).name # ""})

\* C20: over any sequence of chunks of one response every payload
\* occurrence, fenced block or [EVENT] marker, yields its attachment at most
\* once: the message never has more attachments than the text read so far
\* has payload occurrences.
C20_PayloadAtMostOnce ==
  Len(MsgOf(1).attachments) <= PayloadCount(accumulated)

\* C22: for every way the stream is split into chunks, the text of the
\* assistant message never contains a complete tool payload span, neither a
\* well-formed fenced tool block nor a well-formed [EVENT] marker.
C22_NoPayloadInText == PayloadCount(MsgOf(1).text) = 0

\* the text buf holds a fenced block or an [EVENT] marker whose JSON fails to
\* parse
HasBadPayload(buf) == ParseThrows("tool", buf) \/ ParseThrows("event", buf)

\* the names of the well-formed payloads of buf, fenced blocks and markers
WellFormedNames(buf) ==
  LET tm == AllMatches("tool", buf, 1)
      em == AllMatches("event", buf, 1)
      Obj(m) == JSONParseObject(SubSeq(buf, m.open, m.close))
  IN { Obj(tm[i]).name : i \in { j \in 1..Len(tm) :
         Obj(tm[j]).ok /\ Obj(tm[j]).tool = "draw_molecule" /\ Obj(tm[j]).name # "" } }
     \cup
     { Obj(em[i]).name : i \in { j \in 1..Len(em) :
         Obj(em[j]).ok /\ Obj(em[j]).type = "molecule" /\ Obj(em[j]).name # "" } }

SendText(ps) ==
  /\ resp < MaxResp
  /\ status[resp] = "closed"
  /\ resp' = resp + 1
  /\ messages' = messages \o <<UserMsg, BotMsg(resp + 1)>>
  /\ status' = [status EXCEPT ![resp + 1] = "reading"]
  /\ frames' = ps
  /\ stream' = Flatten(ps)
  /\ pos' = 0
  /\ accumulated' = <<>>
  /\ UNCHANGED <<lastProcessedLen, seenToolMatches>>
  /\ UNCHANGED <<respMuted, clipResp, dispatched, eventSourceRef, currentMessageIdRef, buffer>>
  /\ UNCHANGED <<audioQueue, currentAudio, isProcessing, isMuted, isSpeaking, timers,
                 phase, promise, errPending, revoked, nextClip, startLog>>
  /\ UNCHANGED <<uiVars, speechVars>>

InitTurns ==
  /\ InitVoice
  /\ InitUI
  /\ resp = 1
  /\ respMuted = [r \in Resps |-> FALSE]
  /\ messages = <<UserMsg, BotMsg(1)>>
  /\ status = [r \in Resps |-> IF r = 1 THEN "reading" ELSE "idle"]
  /\ dispatched = [r \in Resps |-> <<>>]
  /\ eventSourceRef = Null
  /\ currentMessageIdRef = 0
  /\ frames \in { <<p>> : p \in TextPieces }
  /\ stream = Flatten(frames)
  /\ pos = 0
  /\ buffer = <<>>
  /\ InitNoText
  /\ InitNoSpeech

NextTurns ==
  \/ \E k \in 1..Len(stream) : ReadText(resp, k)
  \/ pos = Len(stream) /\ TextDone(resp)
  \/ \E p \in TextPieces : SendText(<<p>>)

SpecTurns == InitTurns /\ [][NextTurns]_vars

\* C21: the seen-set of one response does not affect another: once a later
\* response of the chat has been read to the end, its message carries the
\* attachment of every well-formed fenced payload of its own text, whatever
\* the earlier responses of the chat emitted.
C21_SeenSetPerResponse ==
  (resp > 1 /\ pos = Len(stream))
    => SelectSeq(MsgOf(resp).attachments, IsFencedName)
         = DistinctPayloads(AllMatches("tool", accumulated, 1), accumulated, {})

\* ============================================ sentences (chat-ui useVoice)
\* The text is a sequence of symbols: "a" a letter or digit, "." a sentence
\* terminator, "s" white space.
TextChars == {"a", ".", "s"}

IsTerminator(x) == x \in {".", "!", "?"}

\* s.trim()
RECURSIVE TrimLeft(_)
TrimLeft(s) == IF s # <<>> /\ IsSpace(Head(s)) THEN TrimLeft(Tail(s)) ELSE s

RECURSIVE TrimRight(_)
TrimRight(s) ==
  IF s # <<>> /\ IsSpace(s[Len(s)]) THEN TrimRight(SubSeq(s, 1, Len(s) - 1)) ELSE s

Trim(s) == TrimRight(TrimLeft(s))

\* replace(/\s+/g, ' '): every run of white space becomes one space
RECURSIVE CollapseSpace(_)
CollapseSpace(s) ==
  IF s = <<>> THEN <<>>
  ELSE IF IsSpace(Head(s))
       THEN <<"s">> \o CollapseSpace(TrimLeft(s))
       ELSE <<Head(s)>> \o CollapseSpace(Tail(s))

\* cleanText of speakText: the replacements that can change a text of
\* TextChars are the white space ones and the trim (the text holds no
\* markdown, no fence, no marker and no 'Sources:' tail)
CleanText(text) == Trim(CollapseSpace(text))

\* slice.split(/([.!?])\s+/) from index i on, the current piece starting at
\* from: the pieces and the captured terminators, alternating, each with
\* the index of its first character in s
RECURSIVE SplitSentences(_, _, _)
SplitSentences(s, i, from) ==
  IF i > Len(s) THEN <<[seg |-> SubSeq(s, from, Len(s)), at |-> from]>>
  ELSE IF IsTerminator(s[i]) /\ i + 1 <= Len(s) /\ IsSpace(s[i + 1])
       THEN <<[seg |-> SubSeq(s, from, i - 1), at |-> from],
              [seg |-> <<s[i]>>, at |-> i]>>
            \o SplitSentences(s, SkipSpace(s, i + 1), SkipSpace(s, i + 1))
       ELSE SplitSentences(s, i + 1, from)

\* The for loop of extractStableSentences over the parts: acc is the
\* sentence being built; the result is the sentences pushed, each with the
\* index (in the slice) of the part that finalised it.
RECURSIVE BuildSentences(_, _)
BuildSentences(parts, acc) ==
  IF parts = <<>> THEN <<>>
  ELSE LET seg == Head(parts).seg
       IN IF seg = <<>> THEN BuildSentences(Tail(parts), acc)
          ELSE LET acc2 == (IF acc # <<>> THEN acc \o <<"s">> ELSE acc) \o Trim(seg)
               IN IF Len(seg) = 1 /\ IsTerminator(seg[1])
                  THEN (IF Trim(acc2) # <<>>
                        THEN <<[text |-> Trim(acc2), end |-> Head(parts).at]>>
                        ELSE <<>>)
                       \o BuildSentences(Tail(parts), <<>>)
                  ELSE BuildSentences(Tail(parts), acc2)

\* (sentences.join(' ') + ' ').length
RECURSIVE JoinedLen(_)
JoinedLen(ss) == IF ss = <<>> THEN 0 ELSE Len(Head(ss)) + 1 + JoinedLen(Tail(ss))

\* the slice of text from the 0-based index startIndex on
SliceFrom(text, startIndex) == SubSeq(text, startIndex + 1, Len(text))

RECURSIVE TextsOf(_)
TextsOf(built) == IF built = <<>> THEN <<>> ELSE <<Head(built).text>> \o TextsOf(Tail(built))

\* extractStableSentences(text, startIndex)
extractStableSentences(text, startIndex) ==
  LET parts == SplitSentences(SliceFrom(text, startIndex), 1, 1)
      sentences == TextsOf(BuildSentences(parts, <<>>))
  IN IF Len(parts) <= 1
     THEN [sentences |-> <<>>, nextIndex |-> startIndex]
     ELSE [sentences |-> sentences, nextIndex |-> startIndex + JoinedLen(sentences)]

\* speakText(text, messageId) for the message, not muted: the sentences go to
\* enqueueTts and the cursor of the message advances.
speakText(n) ==
  \E clean \in {CleanText(SubSeq(msgText, 1, n))} :
    \E r \in {extractStableSentences(clean, lastSpokenIndex)} :
      /\ givenLen' = n
      /\ callText' = clean
      /\ callStart' = lastSpokenIndex
      /\ extracted' = extracted \o r.sentences
      /\ lastSpokenIndex' = IF r.sentences # <<>> THEN r.nextIndex ELSE lastSpokenIndex
      /\ UNCHANGED msgText
      /\ UNCHANGED <<ttsVars, browserVars, ioVars>>

\* speakText is called with the text received so far while the response is
\* still streaming (the speak button of the message).
SpeakPrefix(n) ==
  /\ ~complete
  /\ n > givenLen
  /\ n < Len(msgText)
  /\ speakText(n)
  /\ UNCHANGED complete
  /\ UNCHANGED <<voiceVars, chatVars, sseVars, uiVars, streamVars>>

\* The response is complete: MainPane's streaming TTS effect runs (isLoading
\* is false) and its timer calls speakText with the whole text.
SpeakComplete ==
  /\ ~complete
  /\ speakText(Len(msgText))
  /\ complete' = TRUE
  /\ UNCHANGED <<voiceVars, chatVars, sseVars, uiVars, streamVars>>

\* ---- SpecSentences: one assistant message of up to MaxText symbols,
\* passed to speakText in growing prefixes and then whole.
MaxText == 6

Texts == UNION { [1..n -> TextChars] : n \in 1..MaxText }

InitSentences ==
  /\ InitVoice
  /\ InitChat
  /\ InitNoStream
  /\ InitUI
  /\ InitNoText
  /\ InitTts
  /\ InitBrowser
  /\ InitIo
  /\ msgText \in Texts
  /\ givenLen = 0
  /\ lastSpokenIndex = 0
  /\ extracted = <<>>
  /\ callText = <<>>
  /\ callStart = 0
  /\ complete = FALSE

NextSentences ==
  \/ \E n \in 1..MaxText : SpeakPrefix(n)
  \/ SpeakComplete

SpecSentences == InitSentences /\ [][NextSentences]_vars

\* the sentences the latest speakText call pushed, each with the index in the
\* slice of the part that finalised it
LatestBuilt ==
  LET parts == SplitSentences(SliceFrom(callText, callStart), 1, 1)
  IN IF Len(parts) <= 1 THEN <<>> ELSE BuildSentences(parts, <<>>)

\* the 0-based index in callText of the first character the split of the
\* latest call did not consume: where its last piece starts
ConsumedTo ==
  LET parts == SplitSentences(SliceFrom(callText, callStart), 1, 1)
  IN callStart + parts[Len(parts)].at - 1

\* C24: for a fixed final text and any sequence of growing prefixes of it
\* passed to speakText, the last one being the whole text, the sentences
\* extracted are, in order, those that one call with the whole text extracts.
C24_PrefixesSameAsWhole ==
  complete => extracted = extractStableSentences(CleanText(msgText), 0).sentences

\* C25: every sentence a call emits is an exact substring of the text that
\* ends at its terminator, and the cursor the call leaves is the index after
\* the consumed characters, so that the next call neither covers a character
\* again nor skips one.
C25_ExactSubstrings ==
  /\ \A i \in 1..Len(LatestBuilt) :
       \E k \in 1..Len(callText) :
         SubSeq(callText, k, callStart + LatestBuilt[i].end) = LatestBuilt[i].text
  /\ LatestBuilt # <<>> => lastSpokenIndex = ConsumedTo

\* s without its white space
RECURSIVE Squeeze(_)
Squeeze(s) ==
  IF s = <<>> THEN <<>>
  ELSE (IF IsSpace(Head(s)) THEN <<>> ELSE <<Head(s)>>) \o Squeeze(Tail(s))

\* C26: when the response is complete the text after the last emitted
\* sentence is emitted too, so that every non-white-space character of the
\* message has been handed to speech.
C26_RemainderSpoken ==
  complete => Squeeze(Flatten(extracted)) = Squeeze(msgText)

\* C27: no sentence of a call ends at a terminator that is immediately
\* followed by a character other than white space, and none ends at a
\* terminator that nothing follows yet.
C27_TerminatorThenSpace ==
  \A i \in 1..Len(LatestBuilt) :
    LET e == callStart + LatestBuilt[i].end
    IN e + 1 <= Len(callText) /\ IsSpace(callText[e + 1])

\* ================================== the sentence TTS queue (chat-ui useVoice)
\* A speakText call holds the sentences it extracted and awaits enqueueTts
\* for each in turn.  The enqueueTts call that finds the queue idle runs the
\* loop, and returns to its speakText call only when the loop ends.

\* (mutant) enqueueTts without the busy flag
loopFree_always == TRUE

\* !isTtsBusyRef.current
loopFree == ~isTtsBusy

\* The while loop of call c's enqueueTts reaches its condition with queue q
\* and job states js: it shifts the next job and calls textToSpeech, or it
\* ends (finally: not busy) and speakText goes on with the left sentences it
\* has still to enqueue.  isMuted is the value speakText saw, FALSE.
LoopTurn(c, q, js, left) ==
  IF q # <<>>
  THEN /\ ttsQueue' = Tail(q)
       /\ callJob' = [callJob EXCEPT ![c] = Head(q)]
       /\ jobState' = [js EXCEPT ![Head(q)] = "synth"]
       /\ callState' = [callState EXCEPT ![c] = "synth"]
       /\ isTtsBusy' = TRUE
  ELSE /\ ttsQueue' = q
       /\ callJob' = [callJob EXCEPT ![c] = 0]
       /\ jobState' = js
       /\ callState' = [callState EXCEPT ![c] = IF left > 0 THEN "push" ELSE "done"]
       /\ isTtsBusy' = FALSE

\* enqueueTts(text, messageId) called by speakText call c, which has left
\* more sentences after this one
enqueueTts(c, left) ==
  LET j == nextJob
      q == Append(ttsQueue, j)
      js == [jobState EXCEPT ![j] = "queued"]
  IN /\ callLeft' = [callLeft EXCEPT ![c] = left]
     /\ jobCall' = [jobCall EXCEPT ![j] = c]
     /\ jobSentence' = [jobSentence EXCEPT ![j] = callFrom'[c] + callCount'[c] - left]
     /\ nextJob' = nextJob + 1
     /\ IF loopFree
        THEN LoopTurn(c, q, js, left)
        ELSE /\ ttsQueue' = q
             /\ jobState' = js
             /\ callState' = [callState EXCEPT ![c] = IF left > 0 THEN "push" ELSE "done"]
             /\ UNCHANGED <<isTtsBusy, callJob>>
     /\ UNCHANGED ttsStartLog

\* sentences not enqueued yet, over all calls
RECURSIVE LeftOver(_)
LeftOver(c) == IF c = 0 THEN 0 ELSE callLeft[c] + LeftOver(c - 1)

\* speakText returns from its for loop over the sentences: the cursor of the
\* message is set to the end of the sentences the call extracted.  A call
\* that has sentences left, or that left through catch, sets nothing.
SetCursor(c) ==
  ttsCursor' = IF callState'[c] = "done" THEN callFrom'[c] + callCount'[c] ELSE ttsCursor

\* speakText(text, messageId), all calls being for one message: not muted,
\* it extracts the n sentences that follow the cursor of the message and
\* calls enqueueTts for the first.
SpeakCall(c, n) ==
  /\ callState[c] = "none"
  /\ \A d \in Calls : d < c => callState[d] # "none"
  /\ ~voiceMuted
  /\ n >= 1
  /\ nextJob + LeftOver(MaxCalls) + n - 1 <= MaxJobs
  /\ callFrom' = [callFrom EXCEPT ![c] = ttsCursor]
  /\ callCount' = [callCount EXCEPT ![c] = n]
  /\ enqueueTts(c, n - 1)
  /\ SetCursor(c)
  /\ UNCHANGED voiceMuted
  /\ UNCHANGED <<voiceVars, chatVars, sseVars, uiVars, streamVars, sentenceVars, browserVars, ioVars>>

\* The await of speakText call c returns and its for loop calls enqueueTts
\* for the next sentence.
NextSentence(c) ==
  /\ callState[c] = "push"
  /\ UNCHANGED <<callFrom, callCount, voiceMuted>>
  /\ enqueueTts(c, callLeft[c] - 1)
  /\ SetCursor(c)
  /\ UNCHANGED <<voiceVars, chatVars, sseVars, uiVars, streamVars, sentenceVars, browserVars, ioVars>>

\* apiService.textToSpeech settles for the job of call c's loop: with audio
\* ("ok"), with an unsuccessful result ("fail"), or by throwing ("throw":
\* the exception leaves the loop through finally and reaches the catch of
\* speakText, which drops the sentences it had not enqueued).
SynthReturns(c, res) ==
  /\ callState[c] = "synth"
  /\ LET j == callJob[c]
     IN CASE res = "ok" ->
               /\ jobState' = [jobState EXCEPT ![j] = "playing"]
               /\ callState' = [callState EXCEPT ![c] = "playing"]
               /\ ttsStartLog' = Append(ttsStartLog, j)
               /\ UNCHANGED <<ttsQueue, isTtsBusy, callJob>>
          [] res = "fail" ->
               /\ LoopTurn(c, ttsQueue, [jobState EXCEPT ![j] = "skipped"], callLeft[c])
               /\ UNCHANGED ttsStartLog
          [] OTHER ->
               /\ jobState' = [jobState EXCEPT ![j] = "skipped"]
               /\ callState' = [callState EXCEPT ![c] = "failed"]
               /\ callJob' = [callJob EXCEPT ![c] = 0]
               /\ isTtsBusy' = FALSE
               /\ UNCHANGED <<ttsQueue, ttsStartLog>>
  /\ UNCHANGED <<callLeft, jobCall, nextJob, callFrom, callCount, jobSentence, voiceMuted>>
  /\ SetCursor(c)
  /\ UNCHANGED <<voiceVars, chatVars, sseVars, uiVars, streamVars, sentenceVars, browserVars, ioVars>>

\* The playback promise of call c's loop resolves: audio.onended ("ended"),
\* audio.onerror ("error") or the catch of audio.play() ("rejected").
PlaybackOver(c, how) ==
  /\ callState[c] = "playing"
  /\ jobState[callJob[c]] = "playing"
  /\ LoopTurn(c, ttsQueue,
              [jobState EXCEPT ![callJob[c]] = IF how = "ended" THEN "ended" ELSE "skipped"],
              callLeft[c])
  /\ UNCHANGED <<callLeft, jobCall, nextJob, ttsStartLog>>
  /\ UNCHANGED <<callFrom, callCount, jobSentence, voiceMuted>>
  /\ SetCursor(c)
  /\ UNCHANGED <<voiceVars, chatVars, sseVars, uiVars, streamVars, sentenceVars, browserVars, ioVars>>

\* ---- SpecTts: up to MaxCalls speakText calls with up to MaxJobs sentences
\* in all, synthesis and playback taking any time.
InitTtsOnly ==
  /\ InitVoice
  /\ InitChat
  /\ InitNoStream
  /\ InitUI
  /\ InitNoText
  /\ InitNoSentences
  /\ InitTts
  /\ InitBrowser
  /\ InitIo

NextTts ==
  \/ \E c \in Calls, n \in 1..MaxJobs : SpeakCall(c, n)
  \/ \E c \in Calls : NextSentence(c)
  \/ \E c \in Calls, res \in {"ok", "fail", "throw"} : SynthReturns(c, res)
  \/ \E c \in Calls, how \in {"ended", "error", "rejected"} : PlaybackOver(c, how)

SpecTts == InitTtsOnly /\ [][NextTts]_vars

\* no speakText call is in progress
TtsQuiescent == \A c \in Calls : callState[c] \in {"none", "done", "failed"}

\* C28: if synthesis fails for one sentence, by an unsuccessful result or by
\* throwing, only that sentence is skipped: once all calls are over, every
\* sentence they extracted has been enqueued and taken by the loop, and has
\* been played or skipped.
C28_FailureSkipsOne ==
  (TtsQuiescent /\ \E j \in Jobs : jobState[j] = "skipped")
    => /\ \A c \in Calls : callLeft[c] = 0
       /\ ttsQueue = <<>>
       /\ \A j \in Jobs : jobState[j] \in {"none", "ended", "skipped"}

\* C29: whatever the synthesis latencies, at most one loop holds a job, and
\* a job is synthesized and played only when every job enqueued before it
\* has finished or been skipped.
C29_OneJobInOrder ==
  /\ Cardinality({c \in Calls : callState[c] \in {"synth", "playing"}}) <= 1
  /\ \A j \in Jobs :
       jobState[j] \in {"synth", "playing", "ended", "skipped"}
         => \A i \in 1..(j - 1) : jobState[i] \in {"ended", "skipped"}

\* C29 witness: a second speakText call enqueued its sentence while the loop
\* of the first was busy, and that sentence plays after the first ended.
C29_Witness ==
  /\ ttsStartLog = <<1, 2>>
  /\ jobCall[1] = 1
  /\ jobCall[2] = 2
  /\ jobState[1] = "ended"
  /\ jobState[2] = "playing"

\* ============================================================ useBrowserTTS
\* speechSynthesis holds the utterances passed to speak() that are neither
\* over nor cancelled: "pending" before the start event, "speaking" after it.
\* cancel() removes them all; a removed utterance still gets its end or
\* error event, later.

\* speechSynthesis.cancel() called by who ("start": processQueue about to
\* speak the next utterance, "stop": stopSpeaking): the utterance states and
\* the record of what cut a started utterance short
cancel(st, cut, who) ==
  [st  |-> [u \in Utts |-> IF st[u] \in {"pending", "speaking"} THEN "cancelled" ELSE st[u]],
   cut |-> [u \in Utts |-> IF st[u] = "speaking" THEN who ELSE cut[u]]]

\* the hook's refs and the synthesizer as one record
BrowserRec ==
  [queue |-> queueRef, processing |-> isProcessingRef, utterance |-> utteranceRef,
   st |-> uttState, cut |-> cutBy]

\* processQueue()
processQueue(b) ==
  IF b.processing \/ b.queue = <<>> THEN b
  ELSE LET u == Head(b.queue)
           c == cancel(b.st, b.cut, "start")
       IN [queue |-> Tail(b.queue), processing |-> TRUE, utterance |-> u,
           st |-> [c.st EXCEPT ![u] = "pending"], cut |-> c.cut]

SetBrowser(b) ==
  /\ queueRef' = b.queue
  /\ isProcessingRef' = b.processing
  /\ utteranceRef' = b.utterance
  /\ uttState' = b.st
  /\ cutBy' = b.cut

\* speakText(text) with a non-blank text, as the render with the current
\* isMuted defines it
BrowserSpeak ==
  /\ ~browserMuted
  /\ nextUtt <= MaxUtts
  /\ LET b == [BrowserRec EXCEPT !.queue = Append(@, nextUtt),
                                 !.st = [@ EXCEPT ![nextUtt] = "queued"]]
     IN SetBrowser(IF ~b.processing THEN processQueue(b) ELSE b)
  /\ nextUtt' = nextUtt + 1
  /\ UNCHANGED <<browserMuted, browserSpeaking, browserTimers, uttLog>>
  /\ UNCHANGED <<voiceVars, chatVars, sseVars, uiVars, streamVars, sentenceVars, ttsVars, ioVars>>

\* utterance.onstart
UtteranceStart(u) ==
  /\ uttState[u] = "pending"
  /\ uttState' = [uttState EXCEPT ![u] = "speaking"]
  /\ browserSpeaking' = TRUE
  /\ uttLog' = Append(uttLog, u)
  /\ UNCHANGED <<queueRef, isProcessingRef, utteranceRef, browserMuted, browserTimers,
                 cutBy, nextUtt>>
  /\ UNCHANGED <<voiceVars, chatVars, sseVars, uiVars, streamVars, sentenceVars, ttsVars, ioVars>>

\* the body of utterance.onend and of utterance.onerror
UtteranceOver(u) ==
  /\ uttState' = [uttState EXCEPT ![u] = "over"]
  /\ utteranceRef' = 0
  /\ browserSpeaking' = FALSE
  /\ browserTimers' = browserTimers + 1
  /\ UNCHANGED <<queueRef, isProcessingRef, browserMuted, cutBy, uttLog, nextUtt>>
  /\ UNCHANGED <<voiceVars, chatVars, sseVars, uiVars, streamVars, sentenceVars, ttsVars, ioVars>>

\* utterance.onend: the utterance was spoken to its end, or it was cancelled
\* and the browser reports that with an end event
UtteranceEnd(u) ==
  /\ uttState[u] \in {"speaking", "cancelled"}
  /\ UtteranceOver(u)

\* utterance.onerror: synthesis failed, or the utterance was cancelled and the
\* browser reports that with an error event
UtteranceError(u) ==
  /\ uttState[u] \in {"pending", "speaking", "cancelled"}
  /\ UtteranceOver(u)

\* A 100 ms timer set by onend or onerror fires.
BrowserTimerFires ==
  /\ browserTimers > 0
  /\ browserTimers' = browserTimers - 1
  /\ SetBrowser(processQueue([BrowserRec EXCEPT !.processing = FALSE]))
  /\ UNCHANGED <<browserMuted, browserSpeaking, uttLog, nextUtt>>
  /\ UNCHANGED <<voiceVars, chatVars, sseVars, uiVars, streamVars, sentenceVars, ttsVars, ioVars>>

\* stopSpeaking() of useBrowserTTS
BrowserStop ==
  /\ IF browserMuted
     THEN /\ browserMuted' = FALSE
          /\ UNCHANGED <<queueRef, isProcessingRef, utteranceRef, browserSpeaking,
                         uttState, cutBy>>
     ELSE /\ LET c == cancel(uttState, cutBy, "stop")
                 dropped == SeqToSet(queueRef)
             IN /\ uttState' = [u \in Utts |-> IF u \in dropped THEN "over" ELSE c.st[u]]
                /\ cutBy' = c.cut
          /\ queueRef' = <<>>
          /\ utteranceRef' = 0
          /\ isProcessingRef' = FALSE
          /\ browserSpeaking' = FALSE
          /\ browserMuted' = TRUE
  /\ UNCHANGED <<browserTimers, uttLog, nextUtt>>
  /\ UNCHANGED <<voiceVars, chatVars, sseVars, uiVars, streamVars, sentenceVars, ttsVars, ioVars>>

\* ---- SpecBrowser: up to MaxUtts texts spoken through useBrowserTTS.
InitBrowserOnly ==
  /\ InitVoice
  /\ InitChat
  /\ InitNoStream
  /\ InitUI
  /\ InitNoText
  /\ InitNoSentences
  /\ InitTts
  /\ InitBrowser
  /\ InitIo

NextBrowser ==
  \/ BrowserSpeak
  \/ \E u \in Utts : UtteranceStart(u)
  \/ \E u \in Utts : UtteranceEnd(u)
  \/ \E u \in Utts : UtteranceError(u)
  \/ BrowserTimerFires
  \/ BrowserStop

SpecBrowser == InitBrowserOnly /\ [][NextBrowser]_vars

\* C30: utterances are spoken one at a time, in the order speakText queued
\* them, and an utterance that has started is never cancelled by the start
\* of another one: only stopSpeaking cuts speech short.
C30_BrowserOneAtATime ==
  /\ Cardinality({u \in Utts : uttState[u] \in {"pending", "speaking"}}) <= 1
  /\ \A i, j \in 1..Len(uttLog) : i < j => uttLog[i] < uttLog[j]
  /\ \A u \in Utts : cutBy[u] # "start"

\* ================================================ the processing flag
\* C31: whenever the processing flag of the playback scheduler is off, its
\* queue is empty and no clip is playing; whenever it is on, a clip is
\* playing or exactly one advance timer is pending.
C31_ProcessingFlag ==
  /\ ~isProcessing => (audioQueue = <<>> /\ Active = {})
  /\ isProcessing => (Active # {} \/ timers = 1)

\* C32: while the scheduler is muted no clip is enqueued and no clip starts
\* playing, whichever response the audio event belongs to: a step taken in a
\* muted state puts no clip into the queue and calls play() on none.
C32_MutedNoClip ==
  [][isMuted => /\ startLog' = startLog
                /\ \A c \in Clips : phase'[c] = "queued" => phase[c] = "queued"]_vars

\* ================================== the text of later responses (chat-ui)
\* The characters of a buffer that stand outside every payload span: of the
\* symbols of TextPieces only "a" occurs outside the fenced blocks and the
\* [EVENT] lines, whose symbols are left out.
PlainText(buf) ==
  SelectSeq(buf, LAMBDA c : c = "a")

\* C33: for every response of a chat, the second and later ones included,
\* the text appended to its assistant message is the concatenation of the
\* chunks received so far with the complete payload spans removed, so no
\* prefix of the response's text is dropped: the characters received outside
\* the payload spans are all in the message, in order.
C33_NoPrefixDropped ==
  PlainText(MsgOf(resp).text) = PlainText(accumulated)

\* ================================== stopSpeaking of useVoice (chat-ui)
\* stopSpeaking(): when muted it only unmutes.  Otherwise it pauses the
\* current audio, whose playback promise is resolved by onended, onerror or
\* a rejected play() only and so stays pending, empties the queue and
\* mutes.  isTtsBusyRef is left as it is.
StopVoice ==
  /\ IF voiceMuted
     THEN /\ voiceMuted' = FALSE
          /\ UNCHANGED <<ttsQueue, jobState>>
     ELSE /\ voiceMuted' = TRUE
          /\ ttsQueue' = <<>>
          /\ jobState' = [j \in Jobs |->
                            IF jobState[j] = "playing" THEN "paused"
                            ELSE IF jobState[j] = "queued" THEN "dropped"
                            ELSE jobState[j]]
  /\ UNCHANGED <<isTtsBusy, callState, callLeft, callJob, jobCall, nextJob, ttsStartLog,
                 callFrom, callCount, jobSentence, ttsCursor>>
  /\ UNCHANGED <<voiceVars, chatVars, sseVars, uiVars, streamVars, sentenceVars, browserVars, ioVars>>

\* ---- SpecVoice: the speakText calls of SpecTts and the stop/unmute button;
\* a pending synthesis request settles, a playing clip comes to its end and
\* a resumed speakText goes on.
NextVoice ==
  \/ NextTts
  \/ StopVoice

SpecVoice ==
  /\ InitTtsOnly
  /\ [][NextVoice]_vars
  /\ WF_vars(\E c \in Calls : NextSentence(c))
  /\ WF_vars(\E c \in Calls, res \in {"ok", "fail", "throw"} : SynthReturns(c, res))
  /\ WF_vars(\E c \in Calls, how \in {"ended", "error", "rejected"} : PlaybackOver(c, how))

\* C35: after stopSpeaking interrupted a playing clip and the user unmuted,
\* a sentence enqueued afterwards is eventually synthesized: the busy flag
\* never stays set for ever with jobs waiting in the queue.
C35_QueueNotStuck ==
  (isTtsBusy /\ ttsQueue # <<>>) ~> ~(isTtsBusy /\ ttsQueue # <<>>)

\* ============================== speakText again for one message (useVoice)
\* C34: when speakText is invoked again for the same message while an
\* earlier invocation is still waiting for its sentences to be played, no
\* sentence is enqueued for synthesis twice.  (Calls that left through catch
\* are set aside: what they leave undone is C28's matter.)
C34_NoSentenceTwice ==
  (\A c \in Calls : callState[c] # "failed")
    => \A i, j \in Jobs :
         (i < j /\ jobState[i] # "none" /\ jobState[j] # "none")
           => jobSentence[i] # jobSentence[j]

\* ================================= voice input (frontend useStreamingVoice)
\* A handleVoiceInput call that passes its two guards awaits getUserMedia
\* ("asking"); when the permission is granted it creates its MediaRecorder
\* and starts it ("recording").  stop() makes the recorder inactive at once
\* and queues its stop event ("stopping"); onstop awaits the transcription
\* ("transcribing") and then releases the stream ("done").

\* the next handleVoiceInput call that asks for the microphone
NextRec == CHOOSE r \in Recs : recState[r] = "none" /\ \A q \in Recs : q < r => recState[q] # "none"

\* handleVoiceInput(): a recorder of this hook is recording: stop the one in
\* mediaRecorderRef; a transcription is in progress: return; otherwise ask
\* for the microphone.
handleVoiceInput ==
  /\ IF isRecording /\ mediaRecorderRef # 0
     THEN recState' = IF recState[mediaRecorderRef] = "recording"
                      THEN [recState EXCEPT ![mediaRecorderRef] = "stopping"]
                      ELSE recState
     ELSE IF isProcessingSTT
          THEN UNCHANGED recState
          ELSE /\ \E r \in Recs : recState[r] = "none"
               /\ recState' = [recState EXCEPT ![NextRec] = "asking"]
  /\ UNCHANGED <<isRecording, isProcessingSTT, mediaRecorderRef, recTimer>>
  /\ UNCHANGED <<voiceVars, chatVars, sseVars, uiVars, streamVars, sentenceVars, ttsVars,
                 browserVars, apiVars>>

\* getUserMedia resolves for call r: new MediaRecorder, start(),
\* setIsRecording(true), and the 15 s timer is set.
PermissionGranted(r) ==
  /\ recState[r] = "asking"
  /\ recState' = [recState EXCEPT ![r] = "recording"]
  /\ mediaRecorderRef' = r
  /\ isRecording' = TRUE
  /\ recTimer' = [recTimer EXCEPT ![r] = TRUE]
  /\ UNCHANGED isProcessingSTT
  /\ UNCHANGED <<voiceVars, chatVars, sseVars, uiVars, streamVars, sentenceVars, ttsVars,
                 browserVars, apiVars>>

\* getUserMedia rejects for call r: the catch block
PermissionDenied(r) ==
  /\ recState[r] = "asking"
  /\ recState' = [recState EXCEPT ![r] = "denied"]
  /\ isRecording' = FALSE
  /\ isProcessingSTT' = FALSE
  /\ mediaRecorderRef' = 0
  /\ UNCHANGED recTimer
  /\ UNCHANGED <<voiceVars, chatVars, sseVars, uiVars, streamVars, sentenceVars, ttsVars,
                 browserVars, apiVars>>

\* the 15 s timer of recorder r fires
AutoStop(r) ==
  /\ recTimer[r]
  /\ recTimer' = [recTimer EXCEPT ![r] = FALSE]
  /\ recState' = IF recState[r] = "recording"
                 THEN [recState EXCEPT ![r] = "stopping"]
                 ELSE recState
  /\ UNCHANGED <<isRecording, isProcessingSTT, mediaRecorderRef>>
  /\ UNCHANGED <<voiceVars, chatVars, sseVars, uiVars, streamVars, sentenceVars, ttsVars,
                 browserVars, apiVars>>

\* mediaRecorder.onstop of recorder r, up to its await of speechToText
RecorderStop(r) ==
  /\ recState[r] = "stopping"
  /\ recState' = [recState EXCEPT ![r] = "transcribing"]
  /\ isRecording' = FALSE
  /\ isProcessingSTT' = TRUE
  /\ UNCHANGED <<mediaRecorderRef, recTimer>>
  /\ UNCHANGED <<voiceVars, chatVars, sseVars, uiVars, streamVars, sentenceVars, ttsVars,
                 browserVars, apiVars>>

\* speechToText settles for recorder r, either way: the finally block
TranscriptionOver(r) ==
  /\ recState[r] = "transcribing"
  /\ recState' = [recState EXCEPT ![r] = "done"]
  /\ isProcessingSTT' = FALSE
  /\ mediaRecorderRef' = 0
  /\ UNCHANGED <<isRecording, recTimer>>
  /\ UNCHANGED <<voiceVars, chatVars, sseVars, uiVars, streamVars, sentenceVars, ttsVars,
                 browserVars, apiVars>>

\* mediaRecorder.onerror of recorder r, which is inactive from then on; the
\* browser may fire its stop event afterwards (after = "stopping") or not.
RecorderError(r, after) ==
  /\ recState[r] = "recording"
  /\ recState' = [recState EXCEPT ![r] = after]
  /\ isRecording' = FALSE
  /\ isProcessingSTT' = FALSE
  /\ mediaRecorderRef' = 0
  /\ UNCHANGED recTimer
  /\ UNCHANGED <<voiceVars, chatVars, sseVars, uiVars, streamVars, sentenceVars, ttsVars,
                 browserVars, apiVars>>

\* ---- SpecStt: up to MaxRecs microphone requests, the permission answers,
\* timers and recorder events in any order.
InitSttOnly ==
  /\ InitVoice
  /\ InitChat
  /\ InitNoStream
  /\ InitUI
  /\ InitNoText
  /\ InitNoSentences
  /\ InitTts
  /\ InitBrowser
  /\ InitIo

NextStt ==
  \/ handleVoiceInput
  \/ \E r \in Recs : PermissionGranted(r)
  \/ \E r \in Recs : PermissionDenied(r)
  \/ \E r \in Recs : AutoStop(r)
  \/ \E r \in Recs : RecorderStop(r)
  \/ \E r \in Recs : TranscriptionOver(r)
  \/ \E r \in Recs, after \in {"stopping", "done"} : RecorderError(r, after)

SpecStt == InitSttOnly /\ [][NextStt]_vars

\* C36: at most one MediaRecorder is recording at any time, and no recording
\* starts while a transcription is in progress, however the handleVoiceInput
\* calls interleave with the pending permission request, the 15 s timer and
\* the recorder's stop and error callbacks.
C36_OneRecorder ==
  /\ [](Cardinality({r \in Recs : recState[r] = "recording"}) <= 1)
  /\ [][\A r \in Recs :
          (recState[r] # "recording" /\ recState'[r] = "recording")
            => \A q \in Recs : recState[q] # "transcribing"]_vars

\* ======================================================= ApiService.request
\* A fetch settles with a response or by throwing.  text says whether the
\* message of the error built from a response (its status text and body)
\* contains the word Network.
RetryStatuses == {429, 500, 502, 503, 504}

Statuses == {400, 404, 429, 500, 502, 503, 504, 511}

Outcomes ==
  {[kind |-> "ok", status |-> 200, text |-> "plain"],
   [kind |-> "abort", status |-> 0, text |-> "plain"],
   [kind |-> "network", status |-> 0, text |-> "plain"]}
    \cup {[kind |-> "http", status |-> st, text |-> t] :
            st \in Statuses, t \in {"plain", "Network"}}

\* [429, 500, 502, 503, 504].includes(status)
shouldRetry(o) == o.status \in RetryStatuses

\* error?.name === 'AbortError'
isAbort(o) == o.kind = "abort"

\* !isAbort && (error instanceof TypeError || message.includes('Network'))
isNetwork(o) == ~isAbort(o) /\ (o.kind = "network" \/ o.text = "Network")

\* (mutant) retrying without regard to config.stream
mayRetry_stream(att, retries, isStream) == att < retries

\* attempt < retries && !config.stream
mayRetry(att, retries, isStream) == att < retries /\ ~isStream

\* the top of the while loop with attempt att: the next fetch, or the throw
\* after the loop
LoopHead(att) ==
  IF att <= apiRetries
  THEN /\ apiState' = "fetching"
       /\ fetches' = fetches + 1
       /\ apiResult' = Null
  ELSE /\ apiState' = "thrown"
       /\ apiResult' = IF outLog = <<>> THEN Null ELSE outLog[Len(outLog)]
       /\ UNCHANGED fetches

\* request(endpoint, options, controls) with controls.retries = retries,
\* options.stream = isStream and a timeout that is armed or 0
request(retries, isStream, timed) ==
  /\ apiState \in {"idle", "returned", "thrown"}
  /\ apiRetries' = retries
  /\ apiStream' = isStream
  /\ apiTimed' = timed
  /\ attempt' = 0
  /\ outLog' = <<>>
  /\ apiResult' = Null
  /\ apiState' = "fetching"
  /\ fetches' = 1
  /\ UNCHANGED <<voiceVars, chatVars, sseVars, uiVars, streamVars, sentenceVars, ttsVars,
                 browserVars, sttVars>>

\* the fetch of the current attempt settles with o; an abort needs the timer
AttemptSettles(o) ==
  /\ apiState = "fetching"
  /\ o.kind = "abort" => (apiTimed /\ ~apiStream)
  /\ outLog' = Append(outLog, o)
  /\ LET may == mayRetry(attempt, apiRetries, apiStream)
         again == CASE o.kind = "ok" -> FALSE
                    [] o.kind = "http" ->
                         \/ shouldRetry(o) /\ may
                         \/ (isAbort(o) \/ isNetwork(o)) /\ may
                    [] OTHER -> (isAbort(o) \/ isNetwork(o)) /\ may
     IN IF o.kind = "ok"
        THEN apiState' = "returned" /\ apiResult' = o
        ELSE IF again
             THEN apiState' = "sleeping" /\ UNCHANGED apiResult
             ELSE apiState' = "thrown" /\ apiResult' = o
  /\ UNCHANGED <<attempt, apiRetries, apiStream, apiTimed, fetches>>
  /\ UNCHANGED <<voiceVars, chatVars, sseVars, uiVars, streamVars, sentenceVars, ttsVars,
                 browserVars, sttVars>>

\* the backoff sleep is over: attempt++, lastErr = err, continue
BackoffOver ==
  /\ apiState = "sleeping"
  /\ attempt' = attempt + 1
  /\ LoopHead(attempt + 1)
  /\ UNCHANGED <<apiRetries, apiStream, apiTimed, outLog>>
  /\ UNCHANGED <<voiceVars, chatVars, sseVars, uiVars, streamVars, sentenceVars, ttsVars,
                 browserVars, sttVars>>

\* ---- SpecApi: requests one after the other, with any retries value up to
\* MaxRetries; every fetch settles and every sleep ends.
InitApiOnly ==
  /\ InitVoice
  /\ InitChat
  /\ InitNoStream
  /\ InitUI
  /\ InitNoText
  /\ InitNoSentences
  /\ InitTts
  /\ InitBrowser
  /\ InitIo

NextApi ==
  \/ \E retries \in 0..MaxRetries, isStream \in BOOLEAN, timed \in BOOLEAN :
       request(retries, isStream, timed)
  \/ \E o \in Outcomes : AttemptSettles(o)
  \/ BackoffOver

SpecApi ==
  /\ InitApiOnly
  /\ [][NextApi]_vars
  /\ WF_vars(\E o \in Outcomes : AttemptSettles(o))
  /\ WF_vars(BackoffOver)

\* a failed attempt of the kinds that are retried: one of the five statuses,
\* a timeout abort, or a network error
Transient(o) ==
  \/ o.kind = "http" /\ o.status \in RetryStatuses
  \/ o.kind = "abort"
  \/ o.kind = "network"

\* C37: request retries a failed attempt only for status 429, 500, 502, 503
\* or 504, for a timeout abort or for a network error; a response with any
\* other non-ok status is thrown to the caller after a single fetch.
C37_RetryOnlyTransient ==
  /\ \A i \in 1..Len(outLog) :
       (i < Len(outLog) \/ apiState = "sleeping") => Transient(outLog[i])
  /\ (outLog # <<>> /\ outLog[1].kind = "http" /\ outLog[1].status \notin RetryStatuses)
       => (fetches = 1 /\ apiState = "thrown" /\ apiResult = outLog[1])

\* the request is over
ApiOver == apiState \in {"returned", "thrown"}

\* C38: request always terminates, after at most retries + 1 fetch attempts:
\* it returns a response whose status is ok or throws the error of the last
\* attempt; with retries = 0 or a request marked stream it makes exactly one
\* attempt.
C38_BoundedAttempts ==
  /\ [](/\ fetches <= apiRetries + 1
        /\ apiState = "returned"
             => (apiResult.kind = "ok" /\ apiResult = outLog[Len(outLog)])
        /\ apiState = "thrown"
             => (apiResult.kind # "ok" /\ apiResult = outLog[Len(outLog)])
        /\ (ApiOver /\ (apiRetries = 0 \/ apiStream)) => fetches = 1)
  /\ (~ApiOver /\ apiState # "idle") ~> ApiOver

\* C38 witness: a request marked stream that was allowed retries got a 503
\* and threw it after one fetch.
C38_Witness ==
  /\ apiState = "thrown"
  /\ apiStream
  /\ apiRetries > 0
  /\ fetches = 1
  /\ outLog = <<[kind |-> "http", status |-> 503, text |-> "plain"]>>

====
